---- MODULE Spec2Model ----
(***************************************************************************)
(* Gramps Web API: the user store (auth/__init__.py), the permission       *)
(* matrix (auth/const.py) and the user endpoints (api/resources/user.py).  *)
(***************************************************************************)
EXTENDS Integers, FiniteSets, Sequences, TLC

VARIABLES
    PERMISSIONS,   \* auth/const.py: the dict role -> set of permission names
    users,         \* the rows of table "users"
    mails,         \* the tasks run_task has executed: the e-mails sent, each carrying its token
    requests,      \* HTTP requests in flight that have read the store and not yet committed
    response,      \* the outcome of the last call: [op, status]
    config,        \* the rows of table "configuration"
    CELERY_CONFIG, \* current_app.config["CELERY_CONFIG"]: the settings of the queue backend
    queue,         \* the tasks handed to task.delay, each with its id and state
    media,         \* the media objects of the tree: handle -> [checksum, path, mime]
    files,         \* the files the media handler stores: [path, checksum, mime]
    RATELIMIT_ENABLED, \* current_app.config["RATELIMIT_ENABLED"]
    now,           \* the time, in seconds
    hits,          \* the rate limiter's storage: <<endpoint, client>> -> end of its window
    objects        \* the objects of the tree's database: handle -> object

vars == <<PERMISSIONS, users, mails, requests, response, config, CELERY_CONFIG,
          queue, media, files, RATELIMIT_ENABLED, now, hits, objects>>

----------------------------------------------------------------------------
\* Bounds of the model

\* uuid4() values the model distinguishes
MaxIds == 3
\* salts hash_password can draw
MaxSalts == 4
\* e-mail tasks (and the tokens they carry) issued in one run
MaxMails == 2
\* requests that get past their checks and go on to write, in one run
MaxRequests == 2
\* primary keys table "configuration" hands out in one run
MaxConfigIds == 4
\* tasks handed to the queue backend in one run
MaxTasks == 2
\* seconds the clock runs in one run
MaxTime == 2

Ids == 1..MaxIds
Salts == 1..MaxSalts

\* Python's None, for string-valued arguments and columns
None == "None"
\* None for the integer argument role (add_user, modify_user)
RoleNone == -100

Names == {"a", "b"}
Passwords == {"x", "y"}
Emails == {"e1", "e2"}
Tenants == {"A", "B"}

----------------------------------------------------------------------------
\* auth/const.py

ROLE_ADMIN == 5
ROLE_OWNER == 4
ROLE_EDITOR == 3
ROLE_CONTRIBUTOR == 2
ROLE_MEMBER == 1
ROLE_GUEST == 0
ROLE_DISABLED == -1
ROLE_UNCONFIRMED == -2

PERM_ADD_OTHER_TREE_USER == "AddOtherTreeUser"
PERM_EDIT_OTHER_TREE_USER == "EditOtherTreeUser"
PERM_EDIT_OTHER_TREE_USER_ROLE == "EditOtherTreeUserRole"
PERM_VIEW_OTHER_TREE_USER == "ViewOtherTreeUser"
PERM_DEL_OTHER_TREE_USER == "DeleteOtherTreeUser"

PERM_ADD_USER == "AddUser"
PERM_EDIT_OWN_USER == "EditOwnUser"
PERM_EDIT_OTHER_USER == "EditOtherUser"
PERM_EDIT_USER_ROLE == "EditUserRole"
PERM_MAKE_ADMIN == "MakeAdmin"
PERM_VIEW_OTHER_USER == "ViewOtherUser"
PERM_DEL_USER == "DeleteUser"
PERM_VIEW_PRIVATE == "ViewPrivate"
PERM_EDIT_OBJ == "EditObject"
PERM_ADD_OBJ == "AddObject"
PERM_DEL_OBJ == "DeleteObject"
PERM_IMPORT_FILE == "ImportFile"
PERM_VIEW_SETTINGS == "ViewSettings"
PERM_EDIT_SETTINGS == "EditSettings"
PERM_TRIGGER_REINDEX == "TriggerReindex"
PERM_EDIT_NAME_GROUP == "EditNameGroup"

SCOPE_RESET_PW == "reset_password"
SCOPE_CONF_EMAIL == "confirm_email"
SCOPE_CREATE_ADMIN == "create_admin"

\* The roles in the order in which the module assigns PERMISSIONS[role]
LoginRoles == ROLE_GUEST..ROLE_ADMIN

\* The set literal on the right of "|" in the statement that assigns PERMISSIONS[role]
RoleGrants(role) ==
    CASE role = ROLE_GUEST -> {PERM_EDIT_OWN_USER}
      [] role = ROLE_MEMBER -> {PERM_VIEW_PRIVATE}
      [] role = ROLE_CONTRIBUTOR ->
            {PERM_EDIT_OWN_USER, PERM_VIEW_PRIVATE, PERM_ADD_OBJ}
      [] role = ROLE_EDITOR ->
            {PERM_EDIT_OBJ, PERM_DEL_OBJ, PERM_EDIT_NAME_GROUP}
      [] role = ROLE_OWNER ->
            {PERM_ADD_USER, PERM_DEL_USER, PERM_EDIT_OTHER_USER,
             PERM_EDIT_USER_ROLE, PERM_VIEW_OTHER_USER, PERM_IMPORT_FILE,
             PERM_TRIGGER_REINDEX}
      [] role = ROLE_ADMIN ->
            {PERM_ADD_OTHER_TREE_USER, PERM_VIEW_OTHER_TREE_USER,
             PERM_EDIT_OTHER_TREE_USER, PERM_EDIT_OTHER_TREE_USER_ROLE,
             PERM_MAKE_ADMIN, PERM_DEL_OTHER_TREE_USER, PERM_VIEW_SETTINGS,
             PERM_EDIT_SETTINGS}

\* The value a statement PERMISSIONS[role] = PERMISSIONS[role - 1] | {...} assigns;
\* the first statement (ROLE_GUEST) assigns the literal alone.
\* A variant in which the owner statement forgets the "PERMISSIONS[ROLE_EDITOR] |"
RoleValueNoInherit(table, role) ==
    IF role = ROLE_GUEST \/ role = ROLE_OWNER
    THEN RoleGrants(role)
    ELSE table[role - 1] \cup RoleGrants(role)

\* A variant in which the owner statement also grants a multi-tree permission
RoleValueOwnerCrossTree(table, role) ==
    IF role = ROLE_GUEST
    THEN RoleGrants(role)
    ELSE table[role - 1] \cup RoleGrants(role)
             \cup (IF role = ROLE_OWNER THEN {PERM_EDIT_OTHER_TREE_USER} ELSE {})

RoleValue(table, role) ==
    IF role = ROLE_GUEST
    THEN RoleGrants(role)
    ELSE table[role - 1] \cup RoleGrants(role)

\* All statements of the module have run
Loaded == DOMAIN PERMISSIONS = LoginRoles

\* Module load: the next assignment PERMISSIONS[role] = ... (const.py 61-103)
LoadPermissions ==
    /\ ~Loaded
    /\ LET role == Cardinality(DOMAIN PERMISSIONS)
       IN  PERMISSIONS' = [r \in (DOMAIN PERMISSIONS) \cup {role} |->
                              IF r = role THEN RoleValue(PERMISSIONS, role)
                                          ELSE PERMISSIONS[r]]
    /\ UNCHANGED <<users, mails, requests, response, config, CELERY_CONFIG, queue,
                   media, files, RATELIMIT_ENABLED, now, hits, objects>>

----------------------------------------------------------------------------
\* auth/passwords.py (not part of the sources at hand): a salted one-way hash

\* The hash of a password under a salt
hash_with_salt(password, salt) == <<salt, password>>

verify_password(password, salt_hash) == salt_hash[2] = password

----------------------------------------------------------------------------
\* Fresh values

\* The owner notifications among the tasks (they carry no token)
Notifications == {m \in mails : m.task = "send_email_new_user"}

\* The e-mails that carry a token (tasks.py: send_email_reset_password,
\* send_email_confirm_email)
TokenMails ==
    {m \in mails : m.task \in {"send_email_confirm_email",
                                "send_email_reset_password"}}

\* The scoped tokens that have been issued
Tokens == {m.token : m \in TokenMails}

UsedIds == {u.id : u \in users} \cup {t.identity : t \in Tokens}
               \cup {r.token.identity : r \in requests}

UsedSalts == {u.pwhash[1] : u \in users} \cup {t.old_hash[1] : t \in Tokens}
               \cup {r.token.old_hash[1] : r \in requests}

Least(S) == CHOOSE x \in S : \A y \in S : x <= y

CanDrawId == Ids \ UsedIds # {}
CanDrawSalt == Salts \ UsedSalts # {}

\* uuid.uuid4(): a value that occurs nowhere in the system
uuid4 == Least(Ids \ UsedIds)

\* hash_password(password): the hash under a salt that occurs nowhere in the system
hash_password(password) == hash_with_salt(password, Least(Salts \ UsedSalts))

----------------------------------------------------------------------------
\* auth/__init__.py: the table and its constraints

\* The row would break a constraint of class User: primary key, name unique and
\* not null, email unique (NULLs do not collide)
IntegrityError(row, others) ==
    \/ row.name = None
    \/ \E o \in others :
          \/ o.id = row.id
          \/ o.name = row.name
          \/ (row.email # None /\ o.email = row.email)

Lookup(name) == {u \in users : u.name = name}
UserByName(name) == CHOOSE u \in users : u.name = name
LookupId(guid) == {u \in users : u.id = guid}
UserById(guid) == CHOOSE u \in users : u.id = guid

\* The row add_user builds; Column role has default=0
NewUser(name, password, fullname, email, role, tree) ==
    [id |-> uuid4, name |-> name, fullname |-> fullname, email |-> email,
     pwhash |-> hash_password(password),
     role |-> IF role = RoleNone THEN 0 ELSE role, tree |-> tree]

\* A variant that misses the unique constraint on email
add_user_raises_name_only(name, password, fullname, email, role, tree) ==
    \/ name = ""
    \/ password = ""
    \/ Lookup(name) # {}

\* add_user raises ValueError
add_user_raises(name, password, fullname, email, role, tree) ==
    \/ name = ""
    \/ password = ""
    \/ IntegrityError(NewUser(name, password, fullname, email, role, tree), users)

\* The table after a successful add_user
add_user(name, password, fullname, email, role, tree) ==
    users \cup {NewUser(name, password, fullname, email, role, tree)}

\* A variant that does not look at the role
authorized_any_role(username, password) ==
    /\ Lookup(username) # {}
    /\ verify_password(password, UserByName(username).pwhash)

\* A variant that accepts every password of a login-capable user
authorized_no_verify(username, password) ==
    /\ Lookup(username) # {}
    /\ UserByName(username).role >= 0

authorized(username, password) ==
    IF Lookup(username) = {} THEN FALSE
    ELSE IF UserByName(username).role < 0 THEN FALSE
    ELSE verify_password(password, UserByName(username).pwhash)

get_pwhash(username) == UserByName(username).pwhash

\* A variant that assigns fullname and email whether they are given or not
ModifiedUser_assign_all(user, name_new, password, fullname, email, role, tree) ==
    [id |-> user.id,
     name |-> IF name_new # None THEN name_new ELSE user.name,
     pwhash |-> IF password # None THEN hash_password(password) ELSE user.pwhash,
     fullname |-> fullname,
     email |-> email,
     role |-> IF role # RoleNone THEN role ELSE user.role,
     tree |-> IF tree # None THEN tree ELSE user.tree]

\* The row modify_user writes for `user`
ModifiedUser(user, name_new, password, fullname, email, role, tree) ==
    [id |-> user.id,
     name |-> IF name_new # None THEN name_new ELSE user.name,
     pwhash |-> IF password # None THEN hash_password(password) ELSE user.pwhash,
     fullname |-> IF fullname # None THEN fullname ELSE user.fullname,
     email |-> IF email # None THEN email ELSE user.email,
     role |-> IF role # RoleNone THEN role ELSE user.role,
     tree |-> IF tree # None THEN tree ELSE user.tree]

\* A variant whose commit checks no constraint
modify_user_error_unchecked(name, name_new, password, fullname, email, role, tree) ==
    IF Lookup(name) = {} THEN "NoResultFound" ELSE "ok"

\* What modify_user raises: NoResultFound from .one(), IntegrityError from commit
modify_user_error(name, name_new, password, fullname, email, role, tree) ==
    IF Lookup(name) = {} THEN "NoResultFound"
    ELSE IF IntegrityError(
                ModifiedUser(UserByName(name), name_new, password, fullname,
                             email, role, tree),
                users \ {UserByName(name)})
         THEN "IntegrityError"
         ELSE "ok"

\* The table after a successful modify_user
modify_user(name, name_new, password, fullname, email, role, tree) ==
    (users \ {UserByName(name)})
        \cup {ModifiedUser(UserByName(name), name_new, password, fullname,
                           email, role, tree)}

\* The table after a successful delete_user
delete_user(name) == users \ Lookup(name)

\* None for the argument roles of get_number_users
RolesNone == {RoleNone}

\* A variant that does not filter by tree
get_number_users_any_tree(tree, roles) ==
    Cardinality({u \in users : roles # RolesNone => u.role \in roles})

get_number_users(tree, roles) ==
    Cardinality({u \in users :
                    /\ (roles # RolesNone => u.role \in roles)
                    /\ (tree # None => u.tree = tree)})

\* A variant that fills the rows whose tree is NULL and not those with ""
fill_tree_null_only(tree) ==
    {IF u.tree = None THEN [u EXCEPT !.tree = tree] ELSE u : u \in users}

\* The table after fill_tree
fill_tree(tree) ==
    {IF u.tree = None \/ u.tree = "" THEN [u EXCEPT !.tree = tree] ELSE u :
        u \in users}

----------------------------------------------------------------------------
\* Direct calls of the store's functions (command line, tests)

Reply(op, status) == [op |-> op, status |-> status]

Call_add_user(name, password, fullname, email, role, tree) ==
    /\ Loaded
    /\ CanDrawId /\ CanDrawSalt
    /\ IF add_user_raises(name, password, fullname, email, role, tree)
       THEN /\ users' = users
            /\ response' = Reply("add_user", "ValueError")
       ELSE /\ users' = add_user(name, password, fullname, email, role, tree)
            /\ response' = Reply("add_user", "ok")
    /\ UNCHANGED <<config, CELERY_CONFIG, queue, media, files, RATELIMIT_ENABLED, now, hits, objects, PERMISSIONS, mails, requests>>

Call_modify_user(name, name_new, password, fullname, email, role, tree) ==
    /\ Loaded
    /\ CanDrawSalt
    /\ LET err == modify_user_error(name, name_new, password, fullname, email,
                                    role, tree)
       IN  /\ users' = IF err = "ok"
                       THEN modify_user(name, name_new, password, fullname,
                                        email, role, tree)
                       ELSE users
           /\ response' = Reply("modify_user", err)
    /\ UNCHANGED <<config, CELERY_CONFIG, queue, media, files, RATELIMIT_ENABLED, now, hits, objects, PERMISSIONS, mails, requests>>

Call_delete_user(name) ==
    /\ Loaded
    /\ IF Lookup(name) = {}
       THEN /\ users' = users
            /\ response' = Reply("delete_user", "ValueError")
       ELSE /\ users' = delete_user(name)
            /\ response' = Reply("delete_user", "ok")
    /\ UNCHANGED <<config, CELERY_CONFIG, queue, media, files, RATELIMIT_ENABLED, now, hits, objects, PERMISSIONS, mails, requests>>

Call_fill_tree(tree) ==
    /\ Loaded
    /\ users' = fill_tree(tree)
    /\ response' = Reply("fill_tree", "ok")
    /\ UNCHANGED <<config, CELERY_CONFIG, queue, media, files, RATELIMIT_ENABLED, now, hits, objects, PERMISSIONS, mails, requests>>

----------------------------------------------------------------------------
\* auth/__init__.py: table "configuration"

\* const.py: the keys the table accepts
DB_CONFIG_ALLOWED_KEYS == {"BASE_URL", "EMAIL_HOST"}

\* A Python value with its type; the text is what str() prints
Value(type, text) == [type |-> type, text |-> text]

\* Python's None, as a return value of config_get
NoneValue == Value("NoneType", "None")

\* str(value)
str(value) == Value("str", value.text)

\* The rows filter_by(key=key) selects
ConfigRows(key) == {c \in config : c.key = key}

\* Column id: the integer primary key the table assigns to a new row
NewConfigId ==
    IF config = {} THEN 1
    ELSE (CHOOSE i \in {c.id : c \in config} :
             \A c \in config : c.id <= i) + 1

\* config_get
config_get(key) ==
    IF ConfigRows(key) = {} THEN NoneValue
    ELSE (CHOOSE c \in ConfigRows(key) : TRUE).value

\* config_set raises ValueError
config_set_raises(key, value) == key \notin DB_CONFIG_ALLOWED_KEYS

\* A variant that creates a row without looking for one
config_set_always_insert(key, value) ==
    config \cup {[id |-> NewConfigId, key |-> key, value |-> str(value)]}

\* The table after a successful config_set
config_set(key, value) ==
    IF ConfigRows(key) = {}
    THEN config \cup {[id |-> NewConfigId, key |-> key, value |-> str(value)]}
    ELSE {IF c.key = key THEN [c EXCEPT !.value = str(value)] ELSE c : c \in config}

\* The table after config_delete
config_delete(key) == config \ ConfigRows(key)

Call_config_get(key) ==
    /\ response' = [op |-> "config_get", status |-> "ok", body |-> config_get(key)]
    /\ UNCHANGED <<config, CELERY_CONFIG, queue, media, files, RATELIMIT_ENABLED, now, hits, objects, PERMISSIONS, users, mails, requests>>

Call_config_set(key, value) ==
    /\ ConfigRows(key) = {} => NewConfigId <= MaxConfigIds
    /\ IF config_set_raises(key, value)
       THEN /\ config' = config
            /\ response' = Reply("config_set", "ValueError")
       ELSE /\ config' = config_set(key, value)
            /\ response' = Reply("config_set", "ok")
    /\ UNCHANGED <<CELERY_CONFIG, queue, media, files, RATELIMIT_ENABLED, now, hits, objects, PERMISSIONS, users, mails, requests>>

Call_config_delete(key) ==
    /\ config' = config_delete(key)
    /\ response' = Reply("config_delete", "ok")
    /\ UNCHANGED <<CELERY_CONFIG, queue, media, files, RATELIMIT_ENABLED, now, hits, objects, PERMISSIONS, users, mails, requests>>

----------------------------------------------------------------------------
\* api/resources/user.py: the endpoints

\* The claims of a scoped token (create_access_token: identity, additional_claims)
Token(identity, scope, email, old_hash) ==
    [identity |-> identity, limited_scope |-> scope, email |-> email,
     old_hash |-> old_hash]

\* The value of a claim the token does not carry
NoHash == <<0, None>>

\* run_task(task, email=..., token=...): the task handed over, with its arguments
Mail(task, email, token) == [task |-> task, email |-> email, token |-> token]

\* The model issues at most MaxMails distinct e-mail tasks that carry a token
CanMail(mail) == mail \in mails \/ Cardinality(TokenMails) < MaxMails

\* run_task(send_email_new_user, username=..., fullname=..., email=..., tree=...):
\* every call hands over a task of its own, numbered n
NewUserMail(username, fullname, email, tree) ==
    [task |-> "send_email_new_user", username |-> username,
     fullname |-> fullname, email |-> email, tree |-> tree,
     n |-> Cardinality(Notifications) + 1]

\* get_owner_emails(tree): the e-mail addresses of the owners of the tree that
\* have one (`if user.email` is false for None and for "")
get_owner_emails(tree) ==
    {u.email : u \in {u \in users : /\ u.tree = tree /\ u.role = ROLE_OWNER
                                     /\ u.email # None /\ u.email # ""}}

\* send_email_new_user: the e-mails the task sends when it runs, one to the
\* owners of task.tree or none
send_email_new_user(task) ==
    IF get_owner_emails(task.tree) # {}
    THEN {[subject |-> "New registered user", username |-> task.username,
           to |-> get_owner_emails(task.tree)]}
    ELSE {}

\* The model issues at most MaxMails owner notifications
CanNotify == Cardinality(Notifications) < MaxMails

\* --- api/tasks.py

\* run_export (api/export.py): the name and the type of the file it writes
run_export(task) == <<"export", "." \o task.extension>>

\* What the task returns when it is called: export_db returns a dict, the
\* other tasks return None
task_return(task) ==
    IF task.task = "export_db"
    THEN [file_name |-> run_export(task)[1], file_type |-> run_export(task)[2],
          url |-> "/api/exporters/" \o task.extension \o "/file/processed/"
                     \o run_export(task)[1]]
    ELSE NoneValue

\* The AsyncResult task.delay returns: the id of the next task of the queue
NewAsyncResult == [id |-> ToString(Cardinality(queue) + 1)]

\* The model hands at most MaxTasks tasks to the queue
CanQueue == CELERY_CONFIG # {} => Cardinality(queue) < MaxTasks

\* A variant that calls the task whether a queue is configured or not
run_task_inline(task, raises) ==
    IF raises THEN [status |-> "raise", body |-> [exception |-> "ValueError"]]
    ELSE [status |-> "return", body |-> task_return(task)]

\* run_task: what it returns or raises; `raises` says whether the call of the
\* task raises
run_task(task, raises) ==
    IF CELERY_CONFIG = {}
    THEN IF raises THEN [status |-> "raise", body |-> [exception |-> "ValueError"]]
         ELSE [status |-> "return", body |-> task_return(task)]
    ELSE [status |-> "AsyncResult", body |-> NewAsyncResult]

\* run_task: what it does to the executed tasks and to the queue
RunTask(task, raises) ==
    IF CELERY_CONFIG = {}
    THEN /\ mails' = IF raises THEN mails ELSE mails \cup {task}
         /\ queue' = queue
    ELSE /\ mails' = mails
         /\ queue' = queue \cup {[id |-> NewAsyncResult.id, task |-> task,
                                   state |-> "PENDING"]}

\* make_task_response
make_task_response(task) ==
    [payload |-> [task |-> [href |-> "/api/tasks/" \o task.id, id |-> task.id]],
     status |-> "202"]

Call_run_task(task, raises) ==
    /\ CanQueue
    /\ RunTask(task, raises)
    /\ response' = [op |-> "run_task"] @@ run_task(task, raises)
    /\ UNCHANGED <<config, CELERY_CONFIG, media, files, RATELIMIT_ENABLED, now, hits, objects, PERMISSIONS, users, requests>>

\* A worker of the queue backend takes a pending task and calls it; the
\* backend records how it ended
CeleryWorker(id, raises) ==
    \E q \in queue :
       /\ q.id = id /\ q.state = "PENDING"
       /\ queue' = (queue \ {q})
                      \cup {[q EXCEPT !.state = IF raises THEN "FAILURE" ELSE "SUCCESS"]}
       /\ mails' = IF raises THEN mails ELSE mails \cup {q.task}
       /\ UNCHANGED <<config, CELERY_CONFIG, media, files, RATELIMIT_ENABLED, now, hits, objects, PERMISSIONS, users, requests,
                      response>>

\* The session token of a stored user (POST /token/): identity and tree
Session(u) == [identity |-> u.id, tree |-> u.tree]

\* The session tokens requests can bear
Callers == {Session(u) : u \in users}

\* api/util.py get_tree_from_jwt(), get_tree_id(user_id) (not part of the
\* sources at hand): the tree claim of the token, the stored tree of the user
get_tree_from_jwt(jwt) == jwt.tree
get_tree_id(user_id) == UserById(user_id).tree

\* The stored role of the caller of a request (get_permissions: user.role)
CallerRole(jwt) == UserById(jwt.identity).role

\* get_permissions, by the identity of the caller: PERMISSIONS[user.role];
\* .one() raises for an unknown user, the dict for a role that is no key
get_permissions_raises(jwt) ==
    \/ LookupId(jwt.identity) = {}
    \/ UserById(jwt.identity).role \notin DOMAIN PERMISSIONS
get_permissions(jwt) == PERMISSIONS[UserById(jwt.identity).role]

\* api/auth.py has_permissions (not part of the sources at hand): the
\* caller's present role grants all of `scope`
has_permissions(jwt, scope) ==
    /\ ~get_permissions_raises(jwt)
    /\ scope \subseteq get_permissions(jwt)

\* A variant that lets every caller with a login role pass
require_permissions_any_role(jwt, scope) ==
    IF get_permissions_raises(jwt) THEN "500" ELSE "ok"

\* api/auth.py require_permissions: "ok", or the status the request is
\* aborted with
require_permissions(jwt, scope) ==
    IF get_permissions_raises(jwt) THEN "500"
    ELSE IF scope \subseteq get_permissions(jwt) THEN "ok"
    ELSE "403"

\* A variant that asks for the same-tree permission whatever the tree
prepare_edit_same_tree(jwt, user_name) ==
    IF user_name = "-"
    THEN LET perm == require_permissions(jwt, {PERM_EDIT_OWN_USER})
         IN  IF perm # "ok"
             THEN [status |-> perm, user_name |-> user_name, other_tree |-> FALSE]
             ELSE [status |-> "ok", user_name |-> UserById(jwt.identity).name,
                   other_tree |-> FALSE]
    ELSE IF Lookup(user_name) = {}
    THEN [status |-> "500", user_name |-> user_name, other_tree |-> FALSE]
    ELSE [status |-> require_permissions(jwt, {PERM_EDIT_OTHER_USER}),
          user_name |-> user_name, other_tree |-> FALSE]

\* UserChangeBase.prepare_edit: the user name and other_tree it returns, with
\* status "ok", or the status it aborts with. For an unknown user name
\* get_guid raises ValueError, which `except ValueError():` (line 94) does not
\* catch: the request ends with 500. After require_permissions has passed,
\* get_name finds the caller (the 401 of line 89 is not reached).
prepare_edit(jwt, user_name) ==
    IF user_name = "-"
    THEN LET perm == require_permissions(jwt, {PERM_EDIT_OWN_USER})
         IN  IF perm # "ok"
             THEN [status |-> perm, user_name |-> user_name, other_tree |-> FALSE]
             ELSE [status |-> "ok", user_name |-> UserById(jwt.identity).name,
                   other_tree |-> FALSE]
    ELSE IF Lookup(user_name) = {}
    THEN [status |-> "500", user_name |-> user_name, other_tree |-> FALSE]
    ELSE IF get_tree_from_jwt(jwt) = get_tree_id(UserByName(user_name).id)
    THEN [status |-> require_permissions(jwt, {PERM_EDIT_OTHER_USER}),
          user_name |-> user_name, other_tree |-> FALSE]
    ELSE [status |-> require_permissions(jwt, {PERM_EDIT_OTHER_TREE_USER}),
          user_name |-> user_name, other_tree |-> TRUE]

\* _get_user_detail(user): the dict an endpoint returns for a user
get_user_detail(u) ==
    [name |-> u.name, email |-> u.email, full_name |-> u.fullname,
     role |-> u.role, tree |-> u.tree]

\* A variant that filters by the tree alone
get_all_user_details_tree_only(tree) ==
    {get_user_detail(u) :
        u \in {u \in users : (tree # None /\ tree # "") => u.tree = tree}}

\* get_all_user_details(tree): `if tree:` is false for None and for ""
get_all_user_details(tree) ==
    {get_user_detail(u) :
        u \in {u \in users :
                  (tree # None /\ tree # "") => (u.tree = tree \/ u.tree = None)}}

\* UsersResource.get: the status it answers with
UsersResource_get_status(jwt) ==
    IF get_permissions_raises(jwt) THEN "500"
    ELSE IF has_permissions(jwt, {PERM_VIEW_OTHER_TREE_USER}) THEN "200"
    ELSE require_permissions(jwt, {PERM_VIEW_OTHER_USER})

\* GET /users/: the status and, with status 200, the list returned
UsersResource_get(jwt) ==
    LET status == UsersResource_get_status(jwt)
    IN  /\ Loaded
        /\ response' =
              IF status = "ok"
              THEN [op |-> "users_get", status |-> "200",
                    body |-> get_all_user_details(get_tree_from_jwt(jwt))]
              ELSE IF status = "200"
              THEN [op |-> "users_get", status |-> "200",
                    body |-> get_all_user_details(None)]
              ELSE Reply("users_get", status)
        /\ UNCHANGED <<config, CELERY_CONFIG, queue, media, files, RATELIMIT_ENABLED, now, hits, objects, PERMISSIONS, users, mails, requests>>

\* UserResource.get: the status it answers with. name is user_name after
\* lines 126-134; the tree is compared unless name is "_" (line 135).
UserResource_get_status(jwt, user_name) ==
    LET own == user_name = "-"
        name == IF own /\ LookupId(jwt.identity) # {}
                THEN UserById(jwt.identity).name ELSE user_name
        view == IF own THEN "ok"
                ELSE require_permissions(jwt, {PERM_VIEW_OTHER_USER})
    IN  IF own /\ LookupId(jwt.identity) = {} THEN "401"
        ELSE IF view # "ok" THEN view
        ELSE IF name # "_" /\ get_permissions_raises(jwt) THEN "500"
        ELSE IF name # "_" /\ ~has_permissions(jwt, {PERM_VIEW_OTHER_TREE_USER})
                /\ Lookup(name) = {} THEN "404"
        ELSE IF name # "_" /\ ~has_permissions(jwt, {PERM_VIEW_OTHER_TREE_USER})
                /\ get_tree_from_jwt(jwt) # get_tree_id(UserByName(name).id)
             THEN "403"
        ELSE IF Lookup(name) = {} THEN "404"
        ELSE "200"

\* GET /users/{user_name}
UserResource_get(jwt, user_name) ==
    /\ Loaded
    /\ response' = Reply("get", UserResource_get_status(jwt, user_name))
    /\ UNCHANGED <<config, CELERY_CONFIG, queue, media, files, RATELIMIT_ENABLED, now, hits, objects, PERMISSIONS, users, mails, requests>>

\* A variant without the check of lines 164-166 (role >= ROLE_ADMIN)
UserResource_put_status_no_make_admin(jwt, user_name, email, full_name, role) ==
    LET edit == prepare_edit(jwt, user_name)
        edit_role == IF role = RoleNone THEN "ok"
                     ELSE IF edit.other_tree
                     THEN require_permissions(jwt, {PERM_EDIT_OTHER_TREE_USER_ROLE})
                     ELSE require_permissions(jwt, {PERM_EDIT_USER_ROLE})
        err == modify_user_error(edit.user_name, None, None, full_name, email,
                                 role, None)
    IN  IF edit.status # "ok" THEN edit.status
        ELSE IF edit_role # "ok" THEN edit_role
        ELSE IF err # "ok" THEN "500"
        ELSE "200"

\* A variant without the checks of lines 167-170 (the permission to edit roles)
UserResource_put_status_no_edit_role(jwt, user_name, email, full_name, role) ==
    LET edit == prepare_edit(jwt, user_name)
        admin == IF role # RoleNone /\ role >= ROLE_ADMIN
                 THEN require_permissions(jwt, {PERM_MAKE_ADMIN}) ELSE "ok"
        err == modify_user_error(edit.user_name, None, None, full_name, email,
                                 role, None)
    IN  IF edit.status # "ok" THEN edit.status
        ELSE IF admin # "ok" THEN admin
        ELSE IF err # "ok" THEN "500"
        ELSE "200"

\* UserResource.put: the status it answers with; role = RoleNone when the
\* body has no role. An error of modify_user is not caught (500).
UserResource_put_status(jwt, user_name, email, full_name, role) ==
    LET edit == prepare_edit(jwt, user_name)
        admin == IF role # RoleNone /\ role >= ROLE_ADMIN
                 THEN require_permissions(jwt, {PERM_MAKE_ADMIN}) ELSE "ok"
        edit_role == IF role = RoleNone THEN "ok"
                     ELSE IF edit.other_tree
                     THEN require_permissions(jwt, {PERM_EDIT_OTHER_TREE_USER_ROLE})
                     ELSE require_permissions(jwt, {PERM_EDIT_USER_ROLE})
        err == modify_user_error(edit.user_name, None, None, full_name, email,
                                 role, None)
    IN  IF edit.status # "ok" THEN edit.status
        ELSE IF admin # "ok" THEN admin
        ELSE IF edit_role # "ok" THEN edit_role
        ELSE IF err # "ok" THEN "500"
        ELSE "200"

\* PUT /users/{user_name}
UserResource_put(jwt, user_name, email, full_name, role) ==
    LET status == UserResource_put_status(jwt, user_name, email, full_name, role)
    IN  /\ Loaded
        /\ users' = IF status = "200"
                    THEN modify_user(prepare_edit(jwt, user_name).user_name, None,
                                     None, full_name, email, role, None)
                    ELSE users
        /\ response' = Reply("put", status)
        /\ UNCHANGED <<config, CELERY_CONFIG, queue, media, files, RATELIMIT_ENABLED, now, hits, objects, PERMISSIONS, mails, requests>>

\* UserResource.post: the status it answers with
UserResource_post_status(jwt, user_name, password, email, full_name, role, tree) ==
    LET admin == IF role >= ROLE_ADMIN
                 THEN require_permissions(jwt, {PERM_MAKE_ADMIN}) ELSE "ok"
        add == IF tree = None \/ tree = "" \/ get_tree_from_jwt(jwt) = tree
               THEN require_permissions(jwt, {PERM_ADD_USER})
               ELSE require_permissions(jwt, {PERM_ADD_OTHER_TREE_USER})
        new_tree == IF tree = None \/ tree = ""
                    THEN get_tree_from_jwt(jwt) ELSE tree
    IN  IF user_name = "-" THEN "404"
        ELSE IF admin # "ok" THEN admin
        ELSE IF add # "ok" THEN add
        ELSE IF add_user_raises(user_name, password, full_name, email, role,
                                new_tree) THEN "409"
        ELSE "201"

\* POST /users/{user_name}
UserResource_post(jwt, user_name, password, email, full_name, role, tree) ==
    LET status == UserResource_post_status(jwt, user_name, password, email,
                                           full_name, role, tree)
        new_tree == IF tree = None \/ tree = ""
                    THEN get_tree_from_jwt(jwt) ELSE tree
    IN  /\ Loaded
        /\ CanDrawId /\ CanDrawSalt
        /\ users' = IF status = "201"
                    THEN add_user(user_name, password, full_name, email, role,
                                  new_tree)
                    ELSE users
        /\ response' = Reply("post", status)
        /\ UNCHANGED <<config, CELERY_CONFIG, queue, media, files, RATELIMIT_ENABLED, now, hits, objects, PERMISSIONS, mails, requests>>

\* UserResource.delete: the status it answers with
UserResource_delete_status(jwt, user_name) ==
    IF user_name = "-" THEN "404"
    ELSE IF Lookup(user_name) = {} THEN "404"
    ELSE LET perm == IF get_tree_from_jwt(jwt)
                          = get_tree_id(UserByName(user_name).id)
                     THEN require_permissions(jwt, {PERM_DEL_USER})
                     ELSE require_permissions(jwt, {PERM_DEL_OTHER_TREE_USER})
         IN  IF perm # "ok" THEN perm ELSE "200"

\* DELETE /users/{user_name}
UserResource_delete(jwt, user_name) ==
    LET status == UserResource_delete_status(jwt, user_name)
    IN  /\ Loaded
        /\ users' = IF status = "200" THEN delete_user(user_name) ELSE users
        /\ response' = Reply("delete", status)
        /\ UNCHANGED <<config, CELERY_CONFIG, queue, media, files, RATELIMIT_ENABLED, now, hits, objects, PERMISSIONS, mails, requests>>

\* A variant that does not test the old password
UserChangePasswordResource_post_status_no_old(jwt, user_name, old_password, new_password) ==
    LET edit == prepare_edit(jwt, user_name)
    IN  IF edit.status # "ok" THEN edit.status ELSE "201"

\* UserChangePasswordResource.post: the status it answers with. The test
\* len(args["new_password"]) == "" (line 330) compares a number with a string
\* and is false for every new password.
UserChangePasswordResource_post_status(jwt, user_name, old_password, new_password) ==
    LET edit == prepare_edit(jwt, user_name)
    IN  IF edit.status # "ok" THEN edit.status
        ELSE IF ~authorized(edit.user_name, old_password) THEN "403"
        ELSE "201"

\* POST /users/{user_name}/password/change
UserChangePasswordResource_post(jwt, user_name, old_password, new_password) ==
    LET status == UserChangePasswordResource_post_status(jwt, user_name,
                                                         old_password, new_password)
    IN  /\ Loaded
        /\ CanDrawSalt
        /\ users' = IF status = "201"
                    THEN modify_user(prepare_edit(jwt, user_name).user_name, None,
                                     new_password, None, None, RoleNone, None)
                    ELSE users
        /\ response' = Reply("password_change", status)
        /\ UNCHANGED <<config, CELERY_CONFIG, queue, media, files, RATELIMIT_ENABLED, now, hits, objects, PERMISSIONS, mails, requests>>

\* UserRegisterResource.post: the status it answers with
\* --- ratelimiter: @limiter.limit("1/second") (user.py lines 238, 284, 341)

\* The addresses requests come from; without the limiter they play no part
RemoteAddrs == {"c1", "c2"}
Clients == IF RATELIMIT_ENABLED THEN RemoteAddrs ELSE {None}

\* A variant with a limit that is never reached
limiter_exceeded_never(endpoint, remote_addr) == FALSE

\* The limit of the endpoint is reached for the client: a request of the
\* client has been counted and its window of one second is not over
limiter_exceeded(endpoint, remote_addr) ==
    /\ RATELIMIT_ENABLED
    /\ <<endpoint, remote_addr>> \in DOMAIN hits
    /\ now < hits[<<endpoint, remote_addr>>]

\* The storage after the limiter has seen the request: a request that is let
\* through opens a window of one second
limiter_hit(endpoint, remote_addr) ==
    IF ~RATELIMIT_ENABLED \/ limiter_exceeded(endpoint, remote_addr) THEN hits
    ELSE [k \in DOMAIN hits \cup {<<endpoint, remote_addr>>} |->
             IF k = <<endpoint, remote_addr>> THEN now + 1 ELSE hits[k]]

\* The response as the client gets it: with the limiter on, the model keeps
\* the address it goes to
Answer(resp, remote_addr) ==
    IF RATELIMIT_ENABLED
    THEN [f \in DOMAIN resp \cup {"remote_addr"} |->
             IF f = "remote_addr" THEN remote_addr ELSE resp[f]]
    ELSE resp

\* Time passes; the storage drops the windows that are over
Tick ==
    /\ now < MaxTime
    /\ now' = now + 1
    /\ hits' = [k \in {k \in DOMAIN hits : now + 1 < hits[k]} |-> hits[k]]
    /\ UNCHANGED <<config, CELERY_CONFIG, queue, media, files, RATELIMIT_ENABLED,
                   objects, PERMISSIONS, users, mails, requests, response>>

\* POST /token/ (api/resources/token.py), limited to 1/second: a session token
\* for a user who is authorized
TokenResource_post(username, password) ==
    \E remote_addr \in Clients :
       LET status == IF limiter_exceeded("token", remote_addr) THEN "429"
                     ELSE IF authorized(username, password) THEN "200"
                     ELSE "403"
       IN  /\ Loaded
           /\ hits' = limiter_hit("token", remote_addr)
           /\ response' =
                 Answer(IF status = "200"
                        THEN [op |-> "token", status |-> status,
                              body |-> Session(UserByName(username))]
                        ELSE Reply("token", status), remote_addr)
           /\ UNCHANGED <<config, CELERY_CONFIG, queue, media, files, RATELIMIT_ENABLED,
                          now, objects, PERMISSIONS, users, mails, requests>>

UserRegisterResource_post_status(user_name, password, email, full_name, tree) ==
    IF user_name = "-" THEN "404"
    ELSE IF get_number_users(tree, {ROLE_OWNER}) = 0 THEN "405"
    ELSE IF add_user_raises(user_name, password, full_name, email,
                            ROLE_UNCONFIRMED, tree) THEN "409"
    ELSE "201"

\* POST /users/{user_name}/register
UserRegisterResource_post(user_name, password, email, full_name, tree) ==
  \E remote_addr \in Clients :
    LET status == IF limiter_exceeded("register", remote_addr) THEN "429"
                  ELSE UserRegisterResource_post_status(user_name, password,
                                                        email, full_name, tree)
        user == NewUser(user_name, password, full_name, email,
                        ROLE_UNCONFIRMED, tree)
        mail == Mail("send_email_confirm_email", email,
                     Token(user.id, SCOPE_CONF_EMAIL, email, NoHash))
    IN  /\ Loaded
        /\ CanDrawId /\ CanDrawSalt
        /\ status = "201" => CanMail(mail) /\ CanQueue
        /\ IF status = "201"
           THEN /\ users' = add_user(user_name, password, full_name, email,
                                     ROLE_UNCONFIRMED, tree)
                /\ RunTask(mail, FALSE)
           ELSE UNCHANGED <<users, mails, queue>>
        /\ hits' = limiter_hit("register", remote_addr)
        /\ response' = Answer(Reply("register", status), remote_addr)
        /\ UNCHANGED <<config, CELERY_CONFIG, media, files, RATELIMIT_ENABLED, now, objects, PERMISSIONS, requests>>

\* A variant that does not look at the scope of the token
UserCreateOwnerResource_post_status_no_scope(user_name, claims, password, email, full_name, tree) ==
    IF user_name = "-" THEN "404"
    ELSE IF get_number_users(None, RolesNone) > 0 THEN "405"
    ELSE IF add_user_raises(user_name, password, full_name, email, ROLE_ADMIN,
                            tree) THEN "500"
    ELSE "201"

\* UserCreateOwnerResource.post: the status it answers with. add_user's
\* ValueError is not caught there.
UserCreateOwnerResource_post_status(user_name, claims, password, email, full_name, tree) ==
    IF user_name = "-" THEN "404"
    ELSE IF get_number_users(None, RolesNone) > 0 THEN "405"
    ELSE IF claims.limited_scope # SCOPE_CREATE_ADMIN THEN "403"
    ELSE IF add_user_raises(user_name, password, full_name, email, ROLE_ADMIN,
                            tree) THEN "500"
    ELSE "201"

\* POST /users/{user_name}/create_owner
UserCreateOwnerResource_post(user_name, claims, password, email, full_name, tree) ==
  \E remote_addr \in Clients :
    LET status == IF limiter_exceeded("create_owner", remote_addr) THEN "429"
                  ELSE UserCreateOwnerResource_post_status(user_name, claims,
                                                           password, email,
                                                           full_name, tree)
    IN  /\ Loaded
        /\ CanDrawId /\ CanDrawSalt
        /\ users' = IF status = "201"
                    THEN add_user(user_name, password, full_name, email,
                                  ROLE_ADMIN, tree)
                    ELSE users
        /\ hits' = limiter_hit("create_owner", remote_addr)
        /\ response' = Answer(Reply("create_owner", status), remote_addr)
        /\ UNCHANGED <<config, CELERY_CONFIG, queue, media, files, RATELIMIT_ENABLED, now, objects, PERMISSIONS, mails, requests>>

\* A variant that does not test whether the user has an email
UserTriggerResetPasswordResource_post_status_no_email(user_name) ==
    IF user_name = "-" THEN "404"
    ELSE IF Lookup(user_name) = {} THEN "404"
    ELSE "201"

\* UserTriggerResetPasswordResource.post: the status it answers with
UserTriggerResetPasswordResource_post_status(user_name) ==
    IF user_name = "-" THEN "404"
    ELSE IF Lookup(user_name) = {} THEN "404"
    ELSE IF UserByName(user_name).email = None THEN "404"
    ELSE IF CELERY_CONFIG = {} THEN "201"
    ELSE make_task_response(NewAsyncResult).status

\* POST /users/{user_name}/password/reset/trigger
UserTriggerResetPasswordResource_post(user_name) ==
  \E remote_addr \in Clients :
    LET status == IF limiter_exceeded("reset_trigger", remote_addr) THEN "429"
                  ELSE UserTriggerResetPasswordResource_post_status(user_name)
        user == UserByName(user_name)
        mail == Mail("send_email_reset_password", user.email,
                     Token(user.id, SCOPE_RESET_PW, None, get_pwhash(user_name)))
    IN  /\ Loaded
        /\ status \in {"201", "202"} => CanMail(mail) /\ CanQueue
        /\ IF status \in {"201", "202"}
           THEN RunTask(mail, FALSE)
           ELSE UNCHANGED <<mails, queue>>
        /\ hits' = limiter_hit("reset_trigger", remote_addr)
        /\ response' =
              Answer(IF status = "202"
                     THEN [op |-> "reset_trigger", status |-> status,
                           body |-> make_task_response(
                                       run_task(mail, FALSE).body).payload]
                     ELSE Reply("reset_trigger", status), remote_addr)
        /\ UNCHANGED <<config, CELERY_CONFIG, media, files, RATELIMIT_ENABLED, now, objects, PERMISSIONS, users, requests>>

\* A variant that does not look at the scope of the token
UserResetPasswordResource_post_status_no_scope(claims, new_password) ==
    IF new_password = "" THEN "400"
    ELSE IF LookupId(claims.identity) = {} THEN "401"
    ELSE IF claims.old_hash # UserById(claims.identity).pwhash THEN "409"
    ELSE "201"

\* A variant that does not compare the old_hash claim with the stored hash
UserResetPasswordResource_post_status_no_hash(claims, new_password) ==
    IF new_password = "" THEN "400"
    ELSE IF claims.limited_scope # SCOPE_RESET_PW THEN "403"
    ELSE IF LookupId(claims.identity) = {} THEN "401"
    ELSE "201"

\* UserResetPasswordResource.post up to the call of modify_user: the status it
\* aborts with, or 201 when it goes on to modify_user
UserResetPasswordResource_post_status(claims, new_password) ==
    IF new_password = "" THEN "400"
    ELSE IF claims.limited_scope # SCOPE_RESET_PW THEN "403"
    ELSE IF LookupId(claims.identity) = {} THEN "401"
    ELSE IF claims.old_hash # UserById(claims.identity).pwhash THEN "409"
    ELSE "201"

\* POST /users/-/password/reset, served without another request in between
UserResetPasswordResource_post(claims, new_password) ==
    LET status == UserResetPasswordResource_post_status(claims, new_password)
    IN  /\ Loaded
        /\ CanDrawSalt
        /\ users' = IF status = "201"
                    THEN modify_user(UserById(claims.identity).name, None,
                                     new_password, None, None, RoleNone, None)
                    ELSE users
        /\ response' = Reply("reset_post", status)
        /\ UNCHANGED <<config, CELERY_CONFIG, queue, media, files, RATELIMIT_ENABLED, now, hits, objects, PERMISSIONS, mails, requests>>

\* UserResetPasswordResource.get: the status it answers with, and the template
\* it renders
UserResetPasswordResource_get_status(claims) ==
    IF LookupId(claims.identity) = {} THEN "401"
    ELSE IF claims.limited_scope # SCOPE_RESET_PW THEN "403"
    ELSE IF claims.old_hash # UserById(claims.identity).pwhash
         THEN "200 reset_password_error.html"
    ELSE "200 reset_password.html"

\* GET /users/-/password/reset
UserResetPasswordResource_get(claims) ==
    /\ Loaded
    /\ response' = Reply("reset_get", UserResetPasswordResource_get_status(claims))
    /\ UNCHANGED <<config, CELERY_CONFIG, queue, media, files, RATELIMIT_ENABLED, now, hits, objects, PERMISSIONS, users, mails, requests>>

\* A variant that does not compare the email claim with the stored email
UserConfirmEmailResource_get_status_no_email(claims) ==
    IF LookupId(claims.identity) = {} THEN "401"
    ELSE IF claims.limited_scope # SCOPE_CONF_EMAIL THEN "403"
    ELSE IF UserById(claims.identity).role = ROLE_UNCONFIRMED THEN "200 confirmed"
    ELSE "200"

\* A variant that confirms whatever the stored role is
UserConfirmEmailResource_get_status_any_role(claims) ==
    IF LookupId(claims.identity) = {} THEN "401"
    ELSE IF claims.limited_scope # SCOPE_CONF_EMAIL THEN "403"
    ELSE IF claims.email # UserById(claims.identity).email THEN "403"
    ELSE "200 confirmed"

\* UserConfirmEmailResource.get: the status it answers with; "200 confirmed"
\* is the 200 of a request that went through lines 443-451
UserConfirmEmailResource_get_status(claims) ==
    IF LookupId(claims.identity) = {} THEN "401"
    ELSE IF claims.limited_scope # SCOPE_CONF_EMAIL THEN "403"
    ELSE IF claims.email # UserById(claims.identity).email THEN "403"
    ELSE IF UserById(claims.identity).role = ROLE_UNCONFIRMED THEN "200 confirmed"
    ELSE "200"

\* get_tree_from_jwt() for a scoped token: the tokens issued at lines 268-276
\* and 355-365 carry no tree claim
ScopedTokenTree == None

\* A variant that lets the confirmed user log in as a guest
ConfirmedRoleGuest == ROLE_GUEST

\* The role of modify_user(name=username, role=ROLE_DISABLED), line 443
ConfirmedRole == ROLE_DISABLED

\* GET /users/-/email/confirm
UserConfirmEmailResource_get(claims) ==
    LET status == UserConfirmEmailResource_get_status(claims)
        user == UserById(claims.identity)
    IN  /\ Loaded
        /\ status = "200 confirmed" => CanNotify /\ CanQueue
        /\ IF status = "200 confirmed"
           THEN /\ users' = modify_user(user.name, None, None, None, None,
                                        ConfirmedRole, None)
                /\ RunTask(NewUserMail(user.name, user.fullname, claims.email,
                                       ScopedTokenTree), FALSE)
                /\ response' = Reply("confirm", "200")
           ELSE /\ UNCHANGED <<users, mails, queue>>
                /\ response' = Reply("confirm", status)
        /\ UNCHANGED <<config, CELERY_CONFIG, media, files, RATELIMIT_ENABLED, now, hits, objects, PERMISSIONS, requests>>

----------------------------------------------------------------------------
\* POST /users/-/password/reset served by concurrent workers: a request reads
\* the store (lines 384-399), other requests may run, then it calls modify_user
\* (line 400).

\* The request numbers not yet taken
FreeRids == (1..MaxRequests) \ {r.rid : r \in requests}

\* Lines 384-399: the checks; a request that passes them is in flight with the
\* username it resolved
ResetPost_read(claims, new_password) ==
    LET status == UserResetPasswordResource_post_status(claims, new_password)
    IN  /\ Loaded
        /\ status = "201" => FreeRids # {}
        /\ requests' =
              IF status = "201"
              THEN requests \cup {[rid |-> Least(FreeRids), token |-> claims,
                                   username |-> UserById(claims.identity).name,
                                   new_password |-> new_password,
                                   pc |-> "modify_user"]}
              ELSE requests
        /\ response' = Reply("reset_read", status)
        /\ UNCHANGED <<config, CELERY_CONFIG, queue, media, files, RATELIMIT_ENABLED, now, hits, objects, PERMISSIONS, users, mails>>

\* Line 400: modify_user(name=username, password=new_password), then 201
ResetPost_write(r) ==
    LET err == modify_user_error(r.username, None, r.new_password, None, None,
                                 RoleNone, None)
    IN  /\ r.pc = "modify_user"
        /\ CanDrawSalt
        /\ users' = IF err = "ok"
                    THEN modify_user(r.username, None, r.new_password, None,
                                     None, RoleNone, None)
                    ELSE users
        /\ requests' = (requests \ {r})
                          \cup {[r EXCEPT !.pc = IF err = "ok" THEN "201" ELSE "500"]}
        /\ response' = Reply("reset_write", IF err = "ok" THEN "201" ELSE "500")
        /\ UNCHANGED <<config, CELERY_CONFIG, queue, media, files, RATELIMIT_ENABLED, now, hits, objects, PERMISSIONS, mails>>

----------------------------------------------------------------------------
\* POST /users/{user_name}/create_owner served by concurrent workers: a request
\* runs its checks (lines 296-305), other requests may run, then it calls
\* add_user (lines 306-313).

\* Lines 296-305: the checks; a request that passes them is in flight
CreateOwner_read(user_name, claims, password, email, full_name, tree) ==
    LET status == IF user_name = "-" THEN "404"
                  ELSE IF get_number_users(None, RolesNone) > 0 THEN "405"
                  ELSE IF claims.limited_scope # SCOPE_CREATE_ADMIN THEN "403"
                  ELSE "add_user"
    IN  /\ Loaded
        /\ status = "add_user" => FreeRids # {}
        /\ requests' =
              IF status = "add_user"
              THEN requests \cup {[rid |-> Least(FreeRids), token |-> claims,
                                   user_name |-> user_name, password |-> password,
                                   email |-> email, full_name |-> full_name,
                                   tree |-> tree, pc |-> "add_user"]}
              ELSE requests
        /\ response' = Reply("create_owner_read", status)
        /\ UNCHANGED <<config, CELERY_CONFIG, queue, media, files, RATELIMIT_ENABLED, now, hits, objects, PERMISSIONS, users, mails>>

\* Lines 306-314: add_user(..., role=ROLE_ADMIN), then 201; its ValueError is
\* not caught
CreateOwner_write(r) ==
    LET raises == add_user_raises(r.user_name, r.password, r.full_name, r.email,
                                  ROLE_ADMIN, r.tree)
    IN  /\ r.pc = "add_user"
        /\ CanDrawId /\ CanDrawSalt
        /\ users' = IF raises THEN users
                    ELSE add_user(r.user_name, r.password, r.full_name, r.email,
                                  ROLE_ADMIN, r.tree)
        /\ requests' = (requests \ {r})
                          \cup {[r EXCEPT !.pc = IF raises THEN "500" ELSE "201"]}
        /\ response' = Reply("create_owner_write", IF raises THEN "500" ELSE "201")
        /\ UNCHANGED <<config, CELERY_CONFIG, queue, media, files, RATELIMIT_ENABLED, now, hits, objects, PERMISSIONS, mails>>

----------------------------------------------------------------------------
----------------------------------------------------------------------------
\* api/resources/file.py: MediaFileResource.put

\* api/file.py process_file: the checksum of the content of the request
process_file(content) == "md5-" \o content

\* The file extension the media handler gives to a mime type
Extension(mime) == IF mime = "image/jpeg" THEN ".jpg" ELSE ".png"

\* media_handler.get_default_filename
get_default_filename(checksum, mime) == checksum \o Extension(mime)

\* file_handler.file_exists(): the file of the media object is stored
file_exists(handle) == \E f \in files : f.path = media[handle].path

\* The stored files after media_handler.upload_file(f, checksum, mime, path=path)
upload_file(checksum, mime, path) ==
    {f \in files : f.path # path}
        \cup {[path |-> path, checksum |-> checksum, mime |-> mime]}

\* A variant that looks the object up before it checks the permission
MediaFileResource_put_status_handle_first(jwt, handle, if_match, mime, content, uploadmissing) ==
    IF handle \notin DOMAIN media THEN "404"
    ELSE IF require_permissions(jwt, {PERM_EDIT_OBJ}) # "ok"
    THEN require_permissions(jwt, {PERM_EDIT_OBJ})
    ELSE IF \E etag \in if_match : etag # media[handle].checksum THEN "412"
    ELSE IF mime = None \/ mime = "" THEN "406"
    ELSE IF process_file(content) = media[handle].checksum
    THEN IF ~uploadmissing \/ file_exists(handle) THEN "409" ELSE "200 missing"
    ELSE IF uploadmissing THEN "409"
    ELSE "200"

\* A variant that takes the new file whether the content has changed or not
MediaFileResource_put_status_no_conflict(jwt, handle, if_match, mime, content, uploadmissing) ==
    IF require_permissions(jwt, {PERM_EDIT_OBJ}) # "ok"
    THEN require_permissions(jwt, {PERM_EDIT_OBJ})
    ELSE IF handle \notin DOMAIN media THEN "404"
    ELSE IF \E etag \in if_match : etag # media[handle].checksum THEN "412"
    ELSE IF mime = None \/ mime = "" THEN "406"
    ELSE IF uploadmissing THEN "409"
    ELSE "200"

\* MediaFileResource.put: the status it answers with; "200 missing" is the
\* 200 of line 101, "200" that of line 117. if_match is the set of the entity
\* tags of the header If-Match, mime the content type (None without one),
\* content the body.
MediaFileResource_put_status(jwt, handle, if_match, mime, content, uploadmissing) ==
    IF require_permissions(jwt, {PERM_EDIT_OBJ}) # "ok"
    THEN require_permissions(jwt, {PERM_EDIT_OBJ})
    ELSE IF handle \notin DOMAIN media THEN "404"
    ELSE IF \E etag \in if_match : etag # media[handle].checksum THEN "412"
    ELSE IF mime = None \/ mime = "" THEN "406"
    ELSE IF process_file(content) = media[handle].checksum
    THEN IF ~uploadmissing \/ file_exists(handle) THEN "409" ELSE "200 missing"
    ELSE IF uploadmissing THEN "409"
    ELSE "200"

\* PUT /media/{handle}/file
MediaFileResource_put(jwt, handle, if_match, mime, content, uploadmissing) ==
    LET status == MediaFileResource_put_status(jwt, handle, if_match, mime,
                                               content, uploadmissing)
        checksum == process_file(content)
    IN  /\ Loaded
        /\ IF status = "200 missing"
           THEN /\ files' = upload_file(checksum, mime, media[handle].path)
                /\ media' = media
           ELSE IF status = "200"
           THEN /\ files' = upload_file(checksum, mime,
                                        get_default_filename(checksum, mime))
                /\ media' = [media EXCEPT ![handle] =
                                [checksum |-> checksum,
                                 path |-> get_default_filename(checksum, mime),
                                 mime |-> mime]]
           ELSE UNCHANGED <<media, files>>
        /\ response' = Reply("media_put", IF status = "200 missing" THEN "200"
                                          ELSE status)
        /\ UNCHANGED <<config, CELERY_CONFIG, queue, RATELIMIT_ENABLED, now, hits, objects, PERMISSIONS, users, mails, requests>>

----------------------------------------------------------------------------
\* The endpoints that create objects of the family tree, POST /api/objects/ and
\* POST /api/<class>/ (api/resources/objects.py and base.py are not part of
\* the sources at hand; the definitions follow what tests/test_endpoints/
\* test_post.py sends and asserts)

\* The JSON of an object in a request body; "valid" is false when a field
\* does not validate (test_objects_errors: an event whose date is no date)
Obj(class, handle, valid, father_handle, child) ==
    [_class |-> class, handle |-> handle, valid |-> valid,
     father_handle |-> father_handle, child |-> child]

\* The object as the database stores it
Stored(obj) ==
    IF obj._class = "Person"
    THEN [_class |-> "Person", family_list |-> <<>>, parent_family_list |-> <<>>]
    ELSE IF obj._class = "Family"
    THEN [_class |-> "Family", father_handle |-> obj.father_handle,
          child_ref_list |-> <<obj.child>>]
    ELSE [_class |-> obj._class]

\* A variant that stores the family and leaves the people it refers to as
\* they are
add_object_no_refs(db, obj) ==
    [h \in DOMAIN db \cup {obj.handle} |->
        IF h = obj.handle THEN Stored(obj) ELSE db[h]]

\* Adding an object inside the transaction; a family is also entered in the
\* family_list of its father and the parent_family_list of its child
\* (test_objects_add_family, lines 312-334)
add_object(db, obj) ==
    [h \in DOMAIN db \cup {obj.handle} |->
        IF h = obj.handle THEN Stored(obj)
        ELSE IF obj._class = "Family" /\ h = obj.father_handle
        THEN [db[h] EXCEPT !.family_list = Append(@, obj.handle)]
        ELSE IF obj._class = "Family" /\ h = obj.child
        THEN [db[h] EXCEPT !.parent_family_list = Append(@, obj.handle)]
        ELSE db[h]]

\* The objects of the body, added one after the other
RECURSIVE add_objects(_, _)
add_objects(db, batch) ==
    IF batch = <<>> THEN db
    ELSE add_objects(add_object(db, Head(batch)), Tail(batch))

\* The longest prefix of the body whose objects are all valid
RECURSIVE ValidPrefix(_)
ValidPrefix(batch) ==
    IF batch = <<>> \/ ~Head(batch).valid THEN <<>>
    ELSE <<Head(batch)>> \o ValidPrefix(Tail(batch))

\* A variant that keeps what was added before the object that failed
transaction_keep_added(status, batch) ==
    IF status = "201" THEN add_objects(objects, batch)
    ELSE IF status = "400" THEN add_objects(objects, ValidPrefix(batch))
    ELSE objects

\* The database after the request: the transaction commits when the request
\* is answered 201 and is rolled back whole otherwise
transaction(status, batch) ==
    IF status = "201" THEN add_objects(objects, batch) ELSE objects

\* A variant that asks for AddObject alone, families included
ObjectsResource_post_status_add_only(jwt, batch) ==
    LET perm == require_permissions(jwt, {PERM_ADD_OBJ})
    IN  IF perm # "ok" THEN perm
        ELSE IF \E i \in DOMAIN batch : ~batch[i].valid THEN "400"
        ELSE "201"

\* The status of POST /api/objects/: AddObject is required; a body with an
\* object that does not validate is refused; a family changes the people it
\* refers to and so requires EditObject as well
ObjectsResource_post_status(jwt, batch) ==
    LET perm == require_permissions(jwt, {PERM_ADD_OBJ})
        edit == require_permissions(jwt, {PERM_EDIT_OBJ})
    IN  IF perm # "ok" THEN perm
        ELSE IF \E i \in DOMAIN batch : ~batch[i].valid THEN "400"
        ELSE IF (\E i \in DOMAIN batch : batch[i]._class = "Family") /\ edit # "ok"
        THEN edit
        ELSE "201"

\* POST /api/objects/ with a list of objects
ObjectsResource_post(jwt, batch) ==
    LET status == ObjectsResource_post_status(jwt, batch)
    IN  /\ Loaded
        /\ objects' = transaction(status, batch)
        /\ response' = Reply("objects_post", status)
        /\ UNCHANGED <<config, CELERY_CONFIG, queue, media, files, RATELIMIT_ENABLED, now, hits, PERMISSIONS, users, mails, requests>>

\* POST /api/<class>/ with one object: an object of another class is refused
\* (test_add_note, line 116), otherwise as a list of one
ObjectResource_post(jwt, gramps_class_name, obj) ==
    LET perm == require_permissions(jwt, {PERM_ADD_OBJ})
        status == IF perm # "ok" THEN perm
                  ELSE IF obj._class # gramps_class_name THEN "400"
                  ELSE ObjectsResource_post_status(jwt, <<obj>>)
    IN  /\ Loaded
        /\ objects' = transaction(status, <<obj>>)
        /\ response' = Reply("object_post", status)
        /\ UNCHANGED <<config, CELERY_CONFIG, queue, media, files, RATELIMIT_ENABLED, now, hits, PERMISSIONS, users, mails, requests>>

Init ==
    /\ PERMISSIONS = <<>>
    /\ users = {}
    /\ mails = {}
    /\ requests = {}
    /\ response = Reply("init", "ok")
    /\ config = {}
    /\ CELERY_CONFIG = {}
    /\ queue = {}
    /\ media = <<>>
    /\ files = {}
    /\ RATELIMIT_ENABLED = FALSE
    /\ now = 0
    /\ hits = <<>>
    /\ objects = <<>>

\* --- Spec: the store's functions, with the fields that decide authentication
AuthRoles == {RoleNone, ROLE_UNCONFIRMED, ROLE_DISABLED, ROLE_OWNER}

AuthAdd(name, password, role) ==
    Call_add_user(name, password, None, None, role, None)

AuthModify(name, password, role) ==
    Call_modify_user(name, None, password, None, None, role, None)

Next ==
    \/ LoadPermissions
    \/ \E name \in Names \cup {""}, password \in Passwords \cup {""},
          role \in AuthRoles : AuthAdd(name, password, role)
    \/ \E name \in Names, password \in Passwords \cup {None}, role \in AuthRoles :
          AuthModify(name, password, role)
    \/ \E name \in Names : Call_delete_user(name)

Spec == Init /\ [][Next]_vars

\* --- SpecUnique: the store's functions, with the fields under constraints
UniqueAdd(name, password, fullname, email, tree) ==
    Call_add_user(name, password, fullname, email, RoleNone, tree)

UniqueAddArgs ==
    ((Names \cup {""}) \X {"x"} \X {"f"} \X (Emails \cup {None})
        \X {None, "", "A"})
    \cup {<<"a", "", None, None, None>>}

\* modify_user with one argument given
UniqueModifyArgs ==
    {<<n, None, None, None, None>> : n \in Names}
    \cup {<<None, "y", None, None, None>>}
    \cup {<<None, None, "g", None, None>>}
    \cup {<<None, None, None, e, None>> : e \in Emails}
    \cup {<<None, None, None, None, "B">>}
    \cup {<<n, None, None, e, None>> : n \in {"b"}, e \in {"e2"}}

UniqueModify(name, a) ==
    Call_modify_user(name, a[1], a[2], a[3], a[4], RoleNone, a[5])

NextUnique ==
    \/ LoadPermissions
    \/ \E a \in UniqueAddArgs : UniqueAdd(a[1], a[2], a[3], a[4], a[5])
    \/ \E name \in Names, a \in UniqueModifyArgs : UniqueModify(name, a)
    \/ \E name \in Names : Call_delete_user(name)
    \/ \E tree \in Tenants : Call_fill_tree(tree)

SpecUnique == Init /\ [][NextUnique]_vars

\* --- SpecReset: password reset by e-mail, one request at a time
ResetAdd(name, password, email) ==
    Call_add_user(name, password, None, email, RoleNone, None)

\* modify_user(name=..., password=...), as the password change calls it
ResetChangePassword(name, password) ==
    Call_modify_user(name, None, password, None, None, RoleNone, None)

NextReset ==
    \/ LoadPermissions
    \/ \E name \in Names, email \in {None, "e1"} : ResetAdd(name, "x", email)
    \/ \E password \in Passwords : ResetChangePassword("a", password)
    \/ Call_delete_user("b")
    \/ \E name \in Names \cup {"-"} : UserTriggerResetPasswordResource_post(name)
    \/ \E claims \in Tokens, password \in Passwords \cup {""} :
          UserResetPasswordResource_post(claims, password)

SpecReset == Init /\ [][NextReset]_vars

\* --- SpecResetConc: password reset by e-mail, requests served concurrently
NextResetConc ==
    \/ LoadPermissions
    \/ \E name \in {"a"}, password \in {"x"}, email \in {None, "e1"} :
          ResetAdd(name, password, email)
    \/ \E name \in {"a", "-"} : UserTriggerResetPasswordResource_post(name)
    \/ \E claims \in Tokens, password \in Passwords \cup {""} :
          ResetPost_read(claims, password)
    \/ \E r \in requests : ResetPost_write(r)
    \/ \E name \in {"a"} : Call_delete_user(name)

SpecResetConc == Init /\ [][NextResetConc]_vars

\* --- SpecRegister: self-registration and the creation of the first account
\* The token POST /token/create_owner/ hands out for the bootstrap
BootstrapToken == Token(0, SCOPE_CREATE_ADMIN, None, NoHash)

RegisterAddOwner(name, tree) ==
    Call_add_user(name, "x", "f", None, ROLE_OWNER, tree)

\* <<user_name, password, email, tree>> of the requests: every name with
\* every email and tree, and one request each with the name "-", with an empty
\* name and with an empty password
RegisterArgs ==
    (Names \X {"x"} \X Emails \X (Tenants \cup {None}))
    \cup {<<"-", "x", "e1", "A">>, <<"", "x", "e1", "A">>, <<"a", "", "e1", "A">>}

NextRegister ==
    \/ LoadPermissions
    \/ \E name \in Names, tree \in Tenants : RegisterAddOwner(name, tree)
    \/ \E name \in Names : Call_delete_user(name)
    \/ \E a \in RegisterArgs :
          UserRegisterResource_post(a[1], a[2], a[3], "f", a[4])
    \/ \E a \in RegisterArgs, claims \in Tokens \cup {BootstrapToken} :
          UserCreateOwnerResource_post(a[1], claims, a[2], a[3], "f", a[4])

SpecRegister == Init /\ [][NextRegister]_vars

\* --- SpecConfirm: self-registration followed by the confirmation of the
\* e-mail address, with the registered user's email and role changed in between
ConfirmModify(name, email, role) ==
    Call_modify_user(name, None, None, None, email, role, None)

ConfirmModifyArgs ==
    {<<"e1", RoleNone>>, <<"e2", RoleNone>>, <<None, ROLE_MEMBER>>,
     <<None, ROLE_UNCONFIRMED>>}

NextConfirm ==
    \/ LoadPermissions
    \/ RegisterAddOwner("a", "A")
    \/ \E email \in Emails : UserRegisterResource_post("b", "x", email, "f", "A")
    \/ \E a \in ConfirmModifyArgs : ConfirmModify("b", a[1], a[2])
    \/ Call_delete_user("b")
    \/ UserTriggerResetPasswordResource_post("b")
    \/ \E claims \in Tokens \cup {BootstrapToken} :
          UserConfirmEmailResource_get(claims)

SpecConfirm == Init /\ [][NextConfirm]_vars

\* --- SpecScope: the three workflows with scoped tokens, each presented with
\* the tokens of all of them
ScopeCreateOwnerArgs == {<<"a", "x", "e2", None>>, <<"-", "x", "e2", None>>}

NextScope ==
    \/ LoadPermissions
    \/ RegisterAddOwner("a", "A")
    \/ UserRegisterResource_post("b", "x", "e1", "f", "A")
    \/ \E name \in Names : Call_delete_user(name)
    \/ UserTriggerResetPasswordResource_post("b")
    \/ \E claims \in Tokens \cup {BootstrapToken}, password \in {"y", ""} :
          UserResetPasswordResource_post(claims, password)
    \/ \E claims \in Tokens \cup {BootstrapToken} :
          UserResetPasswordResource_get(claims)
    \/ \E claims \in Tokens \cup {BootstrapToken} :
          UserConfirmEmailResource_get(claims)
    \/ \E a \in ScopeCreateOwnerArgs, claims \in Tokens \cup {BootstrapToken} :
          UserCreateOwnerResource_post(a[1], claims, a[2], a[3], "f", a[4])

SpecScope == Init /\ [][NextScope]_vars

\* --- SpecLifecycle: a self-registered user from the registration to the
\* role change by an owner, with the password workflows in between
LifecyclePutArgs ==
    {<<None, ROLE_MEMBER>>, <<None, ROLE_DISABLED>>, <<"e2", RoleNone>>}

NextLifecycle ==
    \/ LoadPermissions
    \/ RegisterAddOwner("a", "A")
    \/ UserRegisterResource_post("b", "x", "e1", "f", "A")
    \/ \E claims \in Tokens : UserConfirmEmailResource_get(claims)
    \/ UserTriggerResetPasswordResource_post("b")
    \/ \E claims \in Tokens : UserResetPasswordResource_post(claims, "y")
    \/ \E jwt \in Callers, user_name \in {"-", "b"} :
          UserChangePasswordResource_post(jwt, user_name, "x", "y")
    \/ \E jwt \in Callers, user_name \in {"-", "b"}, a \in LifecyclePutArgs :
          UserResource_put(jwt, user_name, a[1], None, a[2])

SpecLifecycle == Init /\ [][NextLifecycle]_vars

\* --- SpecRoles: the endpoints that write a role, with role values inside
\* and outside the levels of auth/const.py in the request bodies
BodyRoles == {ROLE_GUEST, ROLE_OWNER, ROLE_ADMIN + 2, ROLE_UNCONFIRMED - 3}

NextRoles ==
    \/ LoadPermissions
    \/ UserCreateOwnerResource_post("a", BootstrapToken, "x", "e1", "f", "A")
    \/ UserRegisterResource_post("b", "x", "e2", "f", "A")
    \/ \E claims \in Tokens : UserConfirmEmailResource_get(claims)
    \/ \E jwt \in Callers, role \in BodyRoles :
          UserResource_post(jwt, "b", "x", "e2", "f", role, None)
    \/ \E jwt \in Callers, user_name \in {"-", "b"}, role \in BodyRoles :
          UserResource_put(jwt, user_name, None, None, role)
    \/ \E jwt \in Callers : UserResource_delete(jwt, "b")

SpecRoles == Init /\ [][NextRoles]_vars

\* --- SpecAdmin: users of two trees and the requests of logged-in callers on
\* single users
AdminSeeds ==
    {<<"a", ROLE_OWNER, "A">>, <<"b", ROLE_ADMIN, "B">>, <<"_", ROLE_GUEST, "B">>}

\* The users are added (command line) before the first request is served
AdminSeed(name, role, tree) ==
    /\ response.op \in {"init", "add_user"}
    /\ Call_add_user(name, "x", "f", None, role, tree)

AdminNames == {"-", "a", "b", "_"}

AdminPutArgs == {<<"e1", RoleNone>>, <<None, ROLE_GUEST>>}

NextAdmin ==
    \/ LoadPermissions
    \/ \E s \in AdminSeeds : AdminSeed(s[1], s[2], s[3])
    \/ \E jwt \in Callers, user_name \in AdminNames : UserResource_get(jwt, user_name)
    \/ \E jwt \in Callers, user_name \in AdminNames, a \in AdminPutArgs :
          UserResource_put(jwt, user_name, a[1], None, a[2])
    \/ \E jwt \in Callers, user_name \in {"-", "_"} :
          UserChangePasswordResource_post(jwt, user_name, "x", "y")
    \/ \E jwt \in Callers, user_name \in AdminNames :
          UserResource_delete(jwt, user_name)

SpecAdmin == Init /\ [][NextAdmin]_vars

\* --- SpecList: users of two trees, of no tree and of the tree "", and the
\* list of users as the callers get it
ListSeeds ==
    {<<"a", ROLE_OWNER, "A">>, <<"a", ROLE_GUEST, "A">>,
     <<"b", ROLE_ADMIN, "B">>, <<"b", ROLE_MEMBER, "B">>, <<"b", ROLE_OWNER, None>>,
     <<"_", ROLE_GUEST, None>>, <<"_", ROLE_GUEST, "">>, <<"_", ROLE_GUEST, "A">>}

ListSeed(name, role, tree) == Call_add_user(name, "x", "f", None, role, tree)

NextList ==
    \/ LoadPermissions
    \/ \E s \in ListSeeds : ListSeed(s[1], s[2], s[3])
    \/ \E name \in {"b", "_"} : Call_delete_user(name)
    \/ \E jwt \in Callers : UsersResource_get(jwt)

SpecList == Init /\ [][NextList]_vars

\* --- SpecFill: users with and without a tree, and fill_tree
FillAdd(name, tree) == Call_add_user(name, "x", "f", None, RoleNone, tree)

NextFill ==
    \/ LoadPermissions
    \/ \E name \in Names \cup {"_"}, tree \in Tenants \cup {None, ""} :
          FillAdd(name, tree)
    \/ \E name \in Names : Call_delete_user(name)
    \/ \E tree \in Tenants \cup {""} : Call_fill_tree(tree)

SpecFill == Init /\ [][NextFill]_vars

\* --- SpecConfig: the configuration table
ConfigKeys == DB_CONFIG_ALLOWED_KEYS \cup {"SECRET_KEY"}
ConfigValues == {Value("str", "h"), Value("str", "25"), Value("int", "25")}

NextConfig ==
    \/ \E key \in ConfigKeys : Call_config_get(key)
    \/ \E key \in ConfigKeys, value \in ConfigValues : Call_config_set(key, value)
    \/ \E key \in ConfigKeys : Call_config_delete(key)

SpecConfig == Init /\ [][NextConfig]_vars

\* --- SpecTasks: run_task with and without a queue backend
CeleryConfigs == {{}, {"broker_url"}}

InitTasks ==
    /\ PERMISSIONS = <<>>
    /\ users = {}
    /\ mails = {}
    /\ requests = {}
    /\ response = Reply("init", "ok")
    /\ config = {}
    /\ CELERY_CONFIG \in CeleryConfigs
    /\ queue = {}
    /\ media = <<>>
    /\ files = {}
    /\ RATELIMIT_ENABLED = FALSE
    /\ now = 0
    /\ hits = <<>>
    /\ objects = <<>>

TaskCalls ==
    {[task |-> "export_db", tree |-> "A", extension |-> "gramps"],
     [task |-> "search_reindex_full", tree |-> "A"]}

TaskSeed(name, email) ==
    /\ response.op \in {"init", "add_user"}
    /\ Call_add_user(name, "x", "f", email, ROLE_OWNER, "A")

NextTasks ==
    \/ LoadPermissions
    \/ TaskSeed("a", "e1")
    \/ TaskSeed("b", None)
    \/ \E task \in TaskCalls, raises \in BOOLEAN : Call_run_task(task, raises)
    \/ \E user_name \in Names \cup {"-"} :
          UserTriggerResetPasswordResource_post(user_name)
    \/ \E id \in {q.id : q \in queue}, raises \in BOOLEAN : CeleryWorker(id, raises)

SpecTasks == InitTasks /\ [][NextTasks]_vars

\* --- SpecMedia: the media objects of a tree and PUT of their files
Handles == {"h1"}
Contents == {"c1", "c2"}
Mimes == {"image/jpeg", "image/png"}
\* The sets of entity tags a header If-Match can carry
IfMatches ==
    {{}, {process_file("c1")}, {process_file("c1"), process_file("c2")}}

\* The media objects the tree starts with
MediaObjects ==
    [h \in Handles |->
        [checksum |-> process_file("c1"), path |-> h \o ".jpg",
         mime |-> "image/jpeg"]]

\* The tree has a media object; its file is stored or missing
InitMedia ==
    /\ PERMISSIONS = <<>>
    /\ users = {}
    /\ mails = {}
    /\ requests = {}
    /\ response = Reply("init", "ok")
    /\ config = {}
    /\ CELERY_CONFIG = {}
    /\ queue = {}
    /\ media = MediaObjects
    /\ files \in SUBSET {[path |-> MediaObjects[h].path,
                           checksum |-> MediaObjects[h].checksum,
                           mime |-> MediaObjects[h].mime] : h \in Handles}
    /\ RATELIMIT_ENABLED = FALSE
    /\ now = 0
    /\ hits = <<>>
    /\ objects = <<>>

MediaSeeds == {<<"a", ROLE_EDITOR>>, <<"b", ROLE_GUEST>>}

MediaSeed(name, role) ==
    /\ response.op \in {"init", "add_user"}
    /\ Call_add_user(name, "x", "f", None, role, "A")

NextMedia ==
    \/ LoadPermissions
    \/ \E s \in MediaSeeds : MediaSeed(s[1], s[2])
    \/ \E jwt \in Callers, handle \in Handles \cup {"h0"}, if_match \in IfMatches,
          mime \in Mimes \cup {None}, content \in Contents,
          uploadmissing \in BOOLEAN :
          MediaFileResource_put(jwt, handle, if_match, mime, content, uploadmissing)

SpecMedia == InitMedia /\ [][NextMedia]_vars

\* --- SpecObjects: users of four roles in one tree creating objects
ObjectSeeds ==
    {<<"a", ROLE_GUEST>>, <<"b", ROLE_CONTRIBUTOR>>, <<"c", ROLE_EDITOR>>,
     <<"d", ROLE_OWNER>>}

ObjectSeed(name, role) ==
    /\ response.op \in {"init", "add_user"}
    /\ Call_add_user(name, "x", "f", None, role, "A")

\* The bodies the tests post: a note, two people, a family of these two
\* people, a person followed by an event that does not validate
ObjectBatches ==
    {<<Obj("Note", "n1", TRUE, None, None)>>,
     <<Obj("Person", "p1", TRUE, None, None), Obj("Person", "p2", TRUE, None, None)>>,
     <<Obj("Family", "f1", TRUE, "p1", "p2")>>,
     <<Obj("Person", "p3", TRUE, None, None), Obj("Event", "e1", FALSE, None, None)>>}

\* The handles a body refers to, and the handles it creates
BatchRefs(batch) ==
    ({batch[i].father_handle : i \in DOMAIN batch}
        \cup {batch[i].child : i \in DOMAIN batch}) \ {None}
BatchHandles(batch) == {batch[i].handle : i \in DOMAIN batch}

\* The tests post new objects, and families of people that exist
Postable(batch) ==
    /\ BatchRefs(batch) \subseteq DOMAIN objects
    /\ BatchHandles(batch) \cap DOMAIN objects = {}

NextObjects ==
    \/ LoadPermissions
    \/ \E s \in ObjectSeeds : ObjectSeed(s[1], s[2])
    \/ \E jwt \in Callers, batch \in ObjectBatches :
          Postable(batch) /\ ObjectsResource_post(jwt, batch)
    \/ \E jwt \in Callers, batch \in ObjectBatches,
          gramps_class_name \in {"Note", "Family"} :
          /\ Len(batch) = 1 /\ Postable(batch)
          /\ ObjectResource_post(jwt, gramps_class_name, batch[1])

SpecObjects == Init /\ [][NextObjects]_vars

\* --- SpecEdit: users below admin and the requests that write users
LowRoles == {ROLE_GUEST, ROLE_MEMBER, ROLE_CONTRIBUTOR, ROLE_EDITOR}

EditSeed(name, role, tree) ==
    /\ response.op \in {"init", "add_user"}
    /\ Call_add_user(name, "x", "f", None, role, tree)

\* The roles a body of PUT or POST carries
EditBodyRoles == {ROLE_MEMBER, ROLE_ADMIN, ROLE_ADMIN + 1}
\* The e-mail and full name a body of PUT carries
EditBodyDetails == {<<None, None>>, <<"e1", "g">>}
EditNames == {"-", "a", "b", "d"}

NextEdit ==
    \/ LoadPermissions
    \/ EditSeed("a", ROLE_OWNER, "A")
    \/ \E role \in LowRoles : EditSeed("b", role, "A")
    \/ UserRegisterResource_post("d", "x", "e2", "f", "A")
    \/ /\ users # {}
       /\ UserCreateOwnerResource_post("d", BootstrapToken, "x", "e2", "f", "A")
    \/ \E jwt \in Callers, user_name \in EditNames, d \in EditBodyDetails,
          role \in EditBodyRoles \cup {RoleNone} :
          UserResource_put(jwt, user_name, d[1], d[2], role)
    \/ \E jwt \in Callers, user_name \in {"-", "d"}, role \in EditBodyRoles,
          tree \in {None, "B"} :
          UserResource_post(jwt, user_name, "x", "e2", "f", role, tree)
    \/ \E jwt \in Callers, user_name \in EditNames :
          UserResource_delete(jwt, user_name)

SpecEdit == Init /\ [][NextEdit]_vars

\* --- SpecModify: modify_user with several arguments given, next to PUT
ModifySeed(name, role) ==
    /\ response.op \in {"init", "add_user"}
    /\ Call_add_user(name, "x", "f", None, role, "A")

\* name_new, password, fullname, email, role, tree
ModifyArgs ==
    {<<None, None, None, None, RoleNone, None>>,
     <<None, "y", None, None, RoleNone, None>>,
     <<None, None, "g", "e1", RoleNone, None>>,
     <<None, None, "", None, ROLE_GUEST, None>>,
     <<None, None, None, None, ROLE_MEMBER, "B">>,
     <<"c", None, None, "e2", RoleNone, None>>}

NextModify ==
    \/ LoadPermissions
    \/ ModifySeed("a", ROLE_OWNER)
    \/ ModifySeed("b", ROLE_EDITOR)
    \/ \E name \in Names, a \in ModifyArgs :
          Call_modify_user(name, a[1], a[2], a[3], a[4], a[5], a[6])
    \/ \E jwt \in Callers, user_name \in {"-", "a", "b"}, d \in EditBodyDetails,
          role \in {RoleNone, ROLE_CONTRIBUTOR} :
          UserResource_put(jwt, user_name, d[1], d[2], role)
    \/ \E name \in Names : Call_delete_user(name)

SpecModify == Init /\ [][NextModify]_vars

\* --- SpecNotify: owners with and without e-mail address, with and without
\* tree, and a user who registers and confirms
NotifySeed(name, email, tree) ==
    /\ response.op \in {"init", "add_user"}
    /\ Call_add_user(name, "x", "f", email, ROLE_OWNER, tree)

NextNotify ==
    \/ LoadPermissions
    \/ \E email \in {"e1", None}, tree \in {"A", None} : NotifySeed("a", email, tree)
    \/ \E email \in {"e3", ""}, tree \in {"A", "B"} : NotifySeed("c", email, tree)
    \/ \E tree \in {"A", None} : UserRegisterResource_post("b", "x", "e2", "f", tree)
    \/ \E claims \in Tokens : UserConfirmEmailResource_get(claims)

SpecNotify == Init /\ [][NextNotify]_vars

\* --- SpecPassword: the operations that store a password, with empty and
\* non-empty passwords
NewPasswords == {"", "y"}

NextPassword ==
    \/ LoadPermissions
    \/ \E password \in NewPasswords :
          Call_add_user("a", password, "f", "e1", ROLE_OWNER, "A")
    \/ \E password \in NewPasswords :
          UserCreateOwnerResource_post("a", BootstrapToken, password, "e1", "f", "A")
    \/ \E password \in NewPasswords :
          UserRegisterResource_post("b", password, "e2", "f", "A")
    \/ \E jwt \in Callers, password \in NewPasswords :
          UserResource_post(jwt, "b", password, "e2", "f", ROLE_MEMBER, None)
    \/ \E jwt \in Callers, old_password \in NewPasswords,
          new_password \in NewPasswords :
          UserChangePasswordResource_post(jwt, "-", old_password, new_password)
    \/ \E user_name \in Names : UserTriggerResetPasswordResource_post(user_name)
    \/ \E claims \in Tokens, password \in NewPasswords :
          UserResetPasswordResource_post(claims, password)

SpecPassword == Init /\ [][NextPassword]_vars

\* --- SpecTakeover: an admin and an owner of the same tree; the requests are
\* those of callers below admin, who read the e-mails sent to their address
TakeoverSeed(name, email, role) ==
    /\ response.op \in {"init", "add_user"}
    /\ Call_add_user(name, "x", "f", email, role, "A")

\* The session tokens of the users below admin
LowerCallers == {jwt \in Callers : CallerRole(jwt) < ROLE_ADMIN}

\* An e-mail address of the caller below admin
LowerAddress == "e3"

\* The scoped tokens sent to that address
LowerTokens == {m.token : m \in {m \in TokenMails : m.email = LowerAddress}}

NextTakeover ==
    \/ LoadPermissions
    \/ TakeoverSeed("a", "e1", ROLE_ADMIN)
    \/ TakeoverSeed("b", "e2", ROLE_OWNER)
    \/ \E jwt \in LowerCallers, email \in {None, LowerAddress},
          full_name \in {None, "g"}, role \in {RoleNone, ROLE_GUEST} :
          UserResource_put(jwt, "a", email, full_name, role)
    \/ \E jwt \in LowerCallers : UserResource_delete(jwt, "a")
    \/ UserTriggerResetPasswordResource_post("a")
    \/ \E claims \in LowerTokens : UserResetPasswordResource_post(claims, "y")

SpecTakeover == Init /\ [][NextTakeover]_vars

\* --- SpecLimiter: the endpoints limited to one request a second, with the
\* limiter on
InitLimiter ==
    /\ PERMISSIONS = <<>>
    /\ users = {}
    /\ mails = {}
    /\ requests = {}
    /\ response = Reply("init", "ok")
    /\ config = {}
    /\ CELERY_CONFIG = {}
    /\ queue = {}
    /\ media = <<>>
    /\ files = {}
    /\ RATELIMIT_ENABLED = TRUE
    /\ now = 0
    /\ hits = <<>>
    /\ objects = <<>>

LimiterSeed ==
    /\ response.op = "init"
    /\ Call_add_user("a", "x", "f", "e1", ROLE_OWNER, "A")

LimitedOps == {"token", "register", "create_owner", "reset_trigger"}

NextLimiter ==
    \/ LoadPermissions
    \/ LimiterSeed
    \/ Tick
    \/ \E password \in Passwords : TokenResource_post("a", password)
    \/ UserRegisterResource_post("b", "x", "e2", "f", "A")
    \/ UserCreateOwnerResource_post("b", BootstrapToken, "x", "e2", "f", "A")
    \/ UserTriggerResetPasswordResource_post("a")

SpecLimiter == InitLimiter /\ [][NextLimiter]_vars

\* --- SpecBootstrapConc: creation of the first account, requests served
\* concurrently
NextBootstrapConc ==
    \/ LoadPermissions
    \/ \E a \in RegisterArgs :
          CreateOwner_read(a[1], BootstrapToken, a[2], a[3], "f", a[4])
    \/ \E r \in requests : CreateOwner_write(r)

SpecBootstrapConc == Init /\ [][NextBootstrapConc]_vars

----------------------------------------------------------------------------
\* Properties

\* C1: for login-capable roles r1 <= r2 the permission set of r1 is a subset
\* of the permission set of r2 (at every point of the module's construction
\* of PERMISSIONS, and in the finished table).
C1_PermissionsMonotone ==
    \A r1 \in DOMAIN PERMISSIONS, r2 \in DOMAIN PERMISSIONS :
        r1 <= r2 => PERMISSIONS[r1] \subseteq PERMISSIONS[r2]

\* The finished table, in which the top role holds more than the lowest
C1_Witness ==
    /\ Loaded
    /\ PERMISSIONS[ROLE_GUEST] # PERMISSIONS[ROLE_ADMIN]
    /\ PERMISSIONS[ROLE_GUEST] # {}

OtherTreePermissions ==
    {PERM_ADD_OTHER_TREE_USER, PERM_EDIT_OTHER_TREE_USER,
     PERM_EDIT_OTHER_TREE_USER_ROLE, PERM_VIEW_OTHER_TREE_USER,
     PERM_DEL_OTHER_TREE_USER}

\* C2: the five multi-tree permissions are all in the admin role's set and none
\* of them is in the set of a role below admin.
C2_OtherTreeOnlyAdmin ==
    /\ \A r \in DOMAIN PERMISSIONS :
          r < ROLE_ADMIN => PERMISSIONS[r] \cap OtherTreePermissions = {}
    /\ Loaded => OtherTreePermissions \subseteq PERMISSIONS[ROLE_ADMIN]

\* The finished table: the owner's set is there and the admin's set holds the five
C2_Witness ==
    /\ Loaded
    /\ PERM_DEL_USER \in PERMISSIONS[ROLE_OWNER]
    /\ PERMISSIONS[ROLE_ADMIN] \cap OtherTreePermissions = OtherTreePermissions

\* C3: authorized() is false for every user whose stored role is negative,
\* whatever the password, the stored one included, and for every unknown
\* username.
C3_NegativeRoleNeverAuthorized ==
    \A username \in Names \cup {"", "-"}, password \in Passwords \cup {""} :
        (\/ Lookup(username) = {}
         \/ \E u \in Lookup(username) : u.role < 0)
        => ~authorized(username, password)

\* A disabled and an unconfirmed user are stored, each with a known password
C3_Witness ==
    /\ \E u \in users : u.role = ROLE_DISABLED /\ verify_password("x", u.pwhash)
    /\ \E u \in users : u.role = ROLE_UNCONFIRMED /\ verify_password("y", u.pwhash)

\* C4: after a successful add_user(name, password) with no role given,
\* authorized(name, password) is true and authorized(name, y) is false for
\* every other password y.
C4_AddThenAuthorized ==
    [][response'.op = "add_user" /\ response'.status = "ok" =>
        \A name \in Names, password \in Passwords :
            AuthAdd(name, password, RoleNone) =>
                /\ authorized(name, password)'
                /\ \A y \in (Passwords \cup {""}) \ {password} :
                      ~authorized(name, y)']_vars

\* add_user without a role has just stored a user who can log in
C4_Witness ==
    /\ response = Reply("add_user", "ok")
    /\ \E u \in users : u.role = 0 /\ authorized(u.name, "x") /\ ~authorized(u.name, "y")

\* C5: add_user with a username in the store, or with a non-null email in the
\* store, raises ValueError, adds no record and leaves the stored users as
\* they are.
C5_DuplicateAddFails ==
    [][response'.op = "add_user" =>
        \/ (response'.status = "ValueError" /\ users' = users)
        \/ \A a \in UniqueAddArgs :
              (\/ Lookup(a[1]) # {}
               \/ (a[4] # None /\ \E u \in users : u.email = a[4]))
              => ~UniqueAdd(a[1], a[2], a[3], a[4], a[5])]_vars

\* add_user has just failed while a user with an email is stored and a second
\* name is still free, so that the email alone can have been the collision
C5_Witness ==
    /\ response = Reply("add_user", "ValueError")
    /\ Cardinality(users) = 1
    /\ \E u \in users : u.email # None

\* C6: no two rows share a username, and no two rows share a non-null email,
\* whatever their trees.
C6_UniqueNameAndEmail ==
    \A u \in users, v \in users :
        u # v => (u.name # v.name /\ (u.email = None \/ u.email # v.email))

\* modify_user has just been refused by a constraint, with two users of
\* different trees stored
C6_Witness ==
    /\ response = Reply("modify_user", "IntegrityError")
    /\ \E u \in users, v \in users :
          u.name # v.name /\ u.tree # v.tree /\ u.email # None /\ v.email # None

\* The reset tokens issued for a user that is stored
ResetTokensOf(u) ==
    {t \in Tokens : t.limited_scope = SCOPE_RESET_PW /\ t.identity = u.id}

\* C7: when the stored password hash differs from the hash a reset token was
\* issued with (the password was changed, or reset, in between), applying the
\* token with a new password answers 409 and leaves the store as it is; and a
\* step that changes a user's hash never sets it back to the hash of a token
\* issued before, so that a change after the issuance is such a difference.
C7_StaleResetTokenConflict ==
    [][/\ response'.op = "reset_post" =>
            \/ (response'.status = "409" /\ users' = users)
            \/ \A claims \in Tokens, new_password \in Passwords :
                  (/\ claims.limited_scope = SCOPE_RESET_PW
                   /\ \E u \in users :
                         u.id = claims.identity /\ u.pwhash # claims.old_hash)
                  => ~UserResetPasswordResource_post(claims, new_password)
       /\ \A u \in users, v \in users' :
            (u.id = v.id /\ u.pwhash # v.pwhash)
            => \A t \in ResetTokensOf(u) : t.old_hash # v.pwhash]_vars

\* A reset has just been refused with 409: a token of the stored user carries
\* a hash of the user's present password under an older salt
C7_Witness ==
    /\ response = Reply("reset_post", "409")
    /\ \E u \in users : \E t \in ResetTokensOf(u) :
          t.old_hash # u.pwhash /\ t.old_hash[2] = u.pwhash[2]

\* C8: of the requests that apply the same reset token, at most one sets the
\* password (ends with 201), also when they are served concurrently.
C8_TokenAppliedAtMostOnce ==
    \A t \in Tokens :
        Cardinality({r \in requests : r.token = t /\ r.pc = "201"}) <= 1

\* C9: POST /users/{name}/register (name other than "-") for tree T answers 405 and adds no user
\* when no user of T has role owner; when T has an owner, the name and the
\* email are free and name and password are not empty, it answers 201 and
\* adds exactly one user, with role unconfirmed and tree T. A registration
\* never adds the first user of the store or of a tree.
C9_RegisterNeedsOwner ==
    [][response'.op = "register" =>
        /\ users' # users => users # {}
        /\ \A a \in RegisterArgs :
              (/\ a[1] # "-"
               /\ a[4] \in Tenants
               /\ UserRegisterResource_post(a[1], a[2], a[3], "f", a[4]))
              => IF \A u \in users : ~(u.tree = a[4] /\ u.role = ROLE_OWNER)
                 THEN response'.status = "405" /\ users' = users
                 ELSE (/\ a[1] # "" /\ a[2] # ""
                       /\ \A u \in users : u.name # a[1] /\ u.email # a[3])
                      => /\ response'.status = "201"
                         /\ \E u \in users' :
                               /\ u \notin users
                               /\ users' = users \cup {u}
                               /\ u.name = a[1]
                               /\ u.role = ROLE_UNCONFIRMED
                               /\ u.tree = a[4]]_vars

\* A registration has just succeeded in a tree that has an owner, while the
\* other tree has none
C9_Witness ==
    /\ response = Reply("register", "201")
    /\ \E u \in users, o \in users :
          /\ u.role = ROLE_UNCONFIRMED /\ o.role = ROLE_OWNER
          /\ u.tree = o.tree /\ u.tree \in Tenants
          /\ \A w \in users : w.tree = u.tree

\* C10: POST /users/{name}/create_owner (name other than "-") adds a user only when the store holds
\* no user and the token's limited_scope is create_admin, and the user it adds
\* has role admin; with a user in the store it answers 405, with an empty store
\* and another scope 403, and in both cases the store is unchanged.
C10_CreateOwnerOnlyOnEmptyStore ==
    [][response'.op = "create_owner" =>
        \/ (users # {} /\ response'.status = "405" /\ users' = users)
        \/ \A a \in RegisterArgs, claims \in Tokens \cup {BootstrapToken} :
              (/\ a[1] # "-"
               /\ UserCreateOwnerResource_post(a[1], claims, a[2], a[3], "f", a[4]))
              => /\ users # {} => (response'.status = "405" /\ users' = users)
                 /\ (users = {} /\ claims.limited_scope # SCOPE_CREATE_ADMIN)
                       => (response'.status = "403" /\ users' = users)
                 /\ users' # users =>
                       /\ users = {}
                       /\ claims.limited_scope = SCOPE_CREATE_ADMIN
                       /\ \E u \in users' :
                             /\ users' = {u}
                             /\ u.name = a[1]
                             /\ u.role = ROLE_ADMIN]_vars

\* The bootstrap has just created the first user, an admin
C10_Witness ==
    /\ response = Reply("create_owner", "201")
    /\ \E u \in users : users = {u} /\ u.role = ROLE_ADMIN

\* Reachability of the refusals C10 speaks of
C10_Reach405 == response = Reply("create_owner", "405") /\ users # {}
C10_Reach403 == response = Reply("create_owner", "403") /\ users = {}

\* C11: of the create_owner requests bearing the bootstrap token, at most one
\* adds a user, also when they are served concurrently; the bootstrap never
\* leaves more than one user in the store.
C11_BootstrapOneShot ==
    /\ Cardinality({r \in requests : r.pc = "201"}) <= 1
    /\ Cardinality(users) <= 1

\* The confirm tokens issued for a user that is stored
ConfirmTokensOf(u) ==
    {t \in Tokens : t.limited_scope = SCOPE_CONF_EMAIL /\ t.identity = u.id}

\* C12: a Confirm-email request with the confirm token of a stored user whose
\* email is the one in the token, made while the role is unconfirmed, sets the
\* role to disabled, changes nothing else and hands over exactly one
\* send_email_new_user task; made while the role is not unconfirmed, it changes
\* no user and hands over no task; both answer 200.
C12_ConfirmOnce ==
    [][response'.op = "confirm" =>
        \A u \in users : \A claims \in ConfirmTokensOf(u) :
            (claims.email = u.email /\ UserConfirmEmailResource_get(claims))
            => /\ response'.status = "200"
               /\ IF u.role = ROLE_UNCONFIRMED
                  THEN /\ users' = (users \ {u})
                                      \cup {[u EXCEPT !.role = ROLE_DISABLED]}
                       /\ mails \subseteq mails'
                       /\ Cardinality(mails' \ mails) = 1
                       /\ \A m \in mails' \ mails :
                             /\ m.task = "send_email_new_user"
                             /\ m.username = u.name
                  ELSE users' = users /\ mails' = mails]_vars

\* The token that confirmed the address has just been presented again, after
\* the user was given a login-capable role: the role is as it was, one
\* notification is out, the answer is 200
C12_Witness ==
    /\ response = Reply("confirm", "200")
    /\ Cardinality(Notifications) = 1
    /\ \E u \in users :
          /\ u.role = ROLE_MEMBER
          /\ \E t \in ConfirmTokensOf(u) : t.email = u.email
          /\ \E m \in Notifications : m.username = u.name /\ m.n = 1

\* C13: a Confirm-email request with the confirm token of a stored user whose
\* stored email differs from the email claim of the token answers 403, changes
\* no user and hands over no task.
C13_ConfirmEmailMismatch ==
    [][response'.op = "confirm" =>
        \A u \in users : \A claims \in ConfirmTokensOf(u) :
            (claims.email # u.email /\ UserConfirmEmailResource_get(claims))
            => /\ response'.status = "403"
               /\ users' = users
               /\ mails' = mails]_vars

\* A confirmation has just been refused for a user who is still unconfirmed
\* and whose email was changed after the token was issued
C13_Witness ==
    /\ response = Reply("confirm", "403")
    /\ \E u \in users :
          /\ u.role = ROLE_UNCONFIRMED
          /\ ConfirmTokensOf(u) # {}
          /\ \A t \in ConfirmTokensOf(u) : t.email # u.email
    /\ Tokens = {t \in Tokens : t.limited_scope = SCOPE_CONF_EMAIL}

\* C14 as stated: a request of a scoped-token workflow that bears a token of
\* another scope answers 403 and changes nothing: Apply-reset (POST and GET)
\* with a scope other than reset_password, Confirm-email with a scope other than
\* confirm_email, create_owner on an empty store with a scope other than
\* create_admin.
C14_WrongScope403 ==
    [][\A claims \in Tokens \cup {BootstrapToken} :
        /\ claims.limited_scope # SCOPE_RESET_PW =>
              /\ \A password \in {"y", ""} :
                    UserResetPasswordResource_post(claims, password)
                    => response'.status = "403" /\ users' = users
              /\ UserResetPasswordResource_get(claims)
                    => response'.status = "403" /\ users' = users
        /\ claims.limited_scope # SCOPE_CONF_EMAIL =>
              (UserConfirmEmailResource_get(claims)
               => response'.status = "403" /\ users' = users /\ mails' = mails)
        /\ (claims.limited_scope # SCOPE_CREATE_ADMIN /\ users = {}) =>
              \A a \in ScopeCreateOwnerArgs :
                 UserCreateOwnerResource_post(a[1], claims, a[2], a[3], "f", a[4])
                 => response'.status = "403" /\ users' = users]_vars

\* C14 amended: such a request changes no user and hands over no task, and it
\* answers 403 unless a check that comes before the scope check refuses it:
\* 400 for an empty new password (Apply-reset POST), 401 when the identity of
\* the token is no stored user (Apply-reset GET, Confirm-email), 404 for the
\* user name "-" (create_owner).
C14_WrongScopeRefused ==
    [][\A claims \in Tokens \cup {BootstrapToken} :
        /\ claims.limited_scope # SCOPE_RESET_PW =>
              /\ \A password \in {"y", ""} :
                    UserResetPasswordResource_post(claims, password)
                    => /\ users' = users /\ mails' = mails
                       /\ response'.status =
                             IF password = "" THEN "400" ELSE "403"
              /\ UserResetPasswordResource_get(claims)
                    => /\ users' = users /\ mails' = mails
                       /\ response'.status =
                             IF \E u \in users : u.id = claims.identity
                             THEN "403" ELSE "401"
        /\ claims.limited_scope # SCOPE_CONF_EMAIL =>
              (UserConfirmEmailResource_get(claims)
               => /\ users' = users /\ mails' = mails
                  /\ response'.status =
                        IF \E u \in users : u.id = claims.identity
                        THEN "403" ELSE "401")
        /\ (claims.limited_scope # SCOPE_CREATE_ADMIN /\ users = {}) =>
              \A a \in ScopeCreateOwnerArgs :
                 UserCreateOwnerResource_post(a[1], claims, a[2], a[3], "f", a[4])
                 => /\ users' = users /\ mails' = mails
                    /\ response'.status = IF a[1] = "-" THEN "404" ELSE "403"]_vars

\* Apply-reset with a new password has just been refused with 403 while the
\* confirm token of a stored, unconfirmed user and that user's reset token are
\* both out
C14_Witness ==
    /\ response = Reply("reset_post", "403")
    /\ \E u \in users :
          /\ u.role = ROLE_UNCONFIRMED
          /\ ConfirmTokensOf(u) # {}
          /\ ResetTokensOf(u) # {}

\* Reachability of the other refusals C14 speaks of
C14_ReachConfirm403 ==
    /\ response = Reply("confirm", "403")
    /\ \E u \in users : u.role = ROLE_UNCONFIRMED /\ ResetTokensOf(u) # {}
C14_ReachCreateOwner403 ==
    /\ response = Reply("create_owner", "403")
    /\ users = {}
    /\ Tokens # {}
C14_ReachGet403 ==
    /\ response = Reply("reset_get", "403")
    /\ \E u \in users : ConfirmTokensOf(u) # {}

\* C15: POST /users/{name}/password/reset/trigger answers 404 when the name is
\* not in the store and when the user of that name has no email; the response
\* is the same in both cases, no token is issued and no task is handed over.
C15_TriggerNotFound ==
    [][response'.op = "reset_trigger" =>
        \A name \in Names \cup {"-"} :
            (/\ \/ Lookup(name) = {}
                \/ \E u \in Lookup(name) : u.email = None
             /\ UserTriggerResetPasswordResource_post(name))
            => /\ response' = Reply("reset_trigger", "404")
               /\ mails' = mails
               /\ users' = users]_vars

\* A trigger has just been answered 404 while the store holds exactly one
\* user, who has no email, so that both cases were there to be asked for
C15_Witness ==
    /\ response = Reply("reset_trigger", "404")
    /\ \E u \in users : users = {u} /\ u.email = None /\ u.name \in Names

\* C16: a registration adds its user with a negative role; authorized() is
\* false for every user with a negative role, whatever the password; and the
\* only step that takes a stored user from a negative role to a login-capable
\* one is a PUT by a caller who holds EditUserRole or EditOtherTreeUserRole:
\* Confirm-email, Trigger and Apply-reset and the password change never do.
C16_NoLoginBeforeRoleChange ==
    [][/\ response'.op = "register" => \A v \in users' \ users : v.role < 0
       /\ \A v \in users' :
             v.role < 0 => \A password \in Passwords \cup {""} :
                              ~authorized(v.name, password)'
       /\ \/ \A u \in users, v \in users' :
                (u.id = v.id /\ u.role < 0) => v.role < 0
          \/ /\ response'.op = "put"
             /\ \E jwt \in Callers, user_name \in {"-", "b"},
                   a \in LifecyclePutArgs :
                   /\ UserResource_put(jwt, user_name, a[1], None, a[2])
                   /\ \/ has_permissions(jwt, {PERM_EDIT_USER_ROLE})
                      \/ has_permissions(jwt, {PERM_EDIT_OTHER_TREE_USER_ROLE})]_vars

\* An owner's PUT has just given the self-registered user, who had confirmed
\* the email and reset the password, a login-capable role
C16_Witness ==
    /\ response = Reply("put", "200")
    /\ Notifications # {}
    /\ \E u \in users :
          /\ u.name = "b" /\ u.role = ROLE_MEMBER
          /\ authorized("b", "y")
          /\ ConfirmTokensOf(u) # {}

\* The levels auth/const.py defines
DefinedRoles == ROLE_UNCONFIRMED..ROLE_ADMIN

\* C17: every stored role is one of the eight levels -2..5, and the
\* permission matrix has an entry for every stored role that is not negative.
C17_RolesAreLevels ==
    \A u \in users :
        /\ u.role \in DefinedRoles
        /\ (Loaded /\ u.role >= 0) => u.role \in DOMAIN PERMISSIONS

\* C18: no DELETE /users/{name} removes the record of the caller who sent it,
\* whether {name} is "-" or the caller's own user name.
C18_NoSelfDelete ==
    [][\A jwt \in Callers, user_name \in AdminNames :
          UserResource_delete(jwt, user_name)
          => \E v \in users' : v.id = jwt.identity]_vars

\* The request of caller jwt that C19 speaks of: a PUT, a password change or
\* a DELETE on a single user
EditOrDeleteBy(jwt) ==
    \/ \E user_name \in AdminNames, a \in AdminPutArgs :
          UserResource_put(jwt, user_name, a[1], None, a[2])
    \/ \E user_name \in {"-", "_"} :
          UserChangePasswordResource_post(jwt, user_name, "x", "y")
    \/ \E user_name \in AdminNames : UserResource_delete(jwt, user_name)

\* C19: a PUT, password change or DELETE that changes or removes a user whose
\* tree differs from the tree of the caller is the request of a caller who
\* holds the permission for other trees (EditOtherTreeUser, with
\* EditOtherTreeUserRole when the role changes, DeleteOtherTreeUser when the
\* user is removed), and whose role is admin.
C19_CrossTreeNeedsOtherTreePermission ==
    [][\/ users' = users
       \/ response'.op \notin {"put", "password_change", "delete"}
       \/ \A jwt \in Callers :
             EditOrDeleteBy(jwt) =>
                \A u \in users \ users' :
                    u.tree # jwt.tree =>
                       /\ UserById(jwt.identity).role = ROLE_ADMIN
                       /\ IF \E v \in users' : v.id = u.id
                          THEN /\ has_permissions(jwt, {PERM_EDIT_OTHER_TREE_USER})
                               /\ (\E v \in users' : v.id = u.id /\ v.role # u.role)
                                  => has_permissions(jwt,
                                         {PERM_EDIT_OTHER_TREE_USER_ROLE})
                          ELSE has_permissions(jwt, {PERM_DEL_OTHER_TREE_USER})]_vars

\* An owner has just been refused (403) the deletion of a user of another
\* tree, while an admin of that tree is stored
C19_Witness ==
    /\ response = Reply("delete", "403")
    /\ \E a \in users, u \in users, b \in users :
          /\ a.role = ROLE_OWNER /\ u.name = "_" /\ u.tree # a.tree
          /\ b.role = ROLE_ADMIN

\* An admin has changed the role of a user of another tree
C19_ReachAdminEdit ==
    /\ response = Reply("put", "200")
    /\ \E a \in users, b \in users :
          /\ a.name = "a" /\ a.role = ROLE_GUEST /\ a.tree = "A"
          /\ b.role = ROLE_ADMIN /\ b.tree = "B"

\* C20: GET /users/{name} by a caller who does not hold ViewOtherTreeUser,
\* for a user whose tree differs from the tree of the caller, is answered 403,
\* whatever the name.
C20_NoCrossTreeView ==
    [][\A jwt \in Callers, user_name \in AdminNames \ {"-"} :
          (/\ ~get_permissions_raises(jwt)
           /\ ~has_permissions(jwt, {PERM_VIEW_OTHER_TREE_USER})
           /\ \E u \in Lookup(user_name) : u.tree # jwt.tree
           /\ UserResource_get(jwt, user_name))
          => response'.status = "403"]_vars

C21_ReachAll ==
    /\ response.op = "users_get" /\ response.status = "200"
    /\ \E d \in response.body : d.tree = "A"
    /\ \E d \in response.body : d.tree = "B" /\ d.role = ROLE_ADMIN
C21_Reach403 ==
    /\ response = Reply("users_get", "403")
    /\ \E u \in users : u.role = ROLE_GUEST

\* C22: a PUT /users/{name} or POST /users/{name}/password/change with a
\* name other than "-" that is not in the store is answered 404 and leaves
\* the store as it is.
C22_UnknownUserNotFound ==
    [][\A jwt \in Callers, user_name \in AdminNames \ {"-"} :
          Lookup(user_name) = {} =>
             /\ \A a \in AdminPutArgs :
                   UserResource_put(jwt, user_name, a[1], None, a[2])
                   => response'.status = "404" /\ users' = users
             /\ UserChangePasswordResource_post(jwt, user_name, "x", "y")
                   => response'.status = "404" /\ users' = users]_vars

\* C23: a password change for a stored target (the caller for "-", the named
\* user otherwise) whose stored hash does not verify the old password given is
\* answered 403 and changes nothing; a password change that changes the store
\* is one whose old password verifies against the target's hash, and it
\* replaces the hash of the target alone, by a hash of the new password.
C23_PasswordChangeNeedsOldPassword ==
    [][response'.op = "password_change" =>
        \A jwt \in Callers, user_name \in {"-", "_"} :
           LET target == IF user_name = "-"
                         THEN {u \in users : u.id = jwt.identity}
                         ELSE {u \in users : u.name = user_name}
           IN  UserChangePasswordResource_post(jwt, user_name, "x", "y") =>
                 \A u \in target :
                    /\ ~verify_password("x", u.pwhash)
                          => response'.status = "403" /\ users' = users
                    /\ users' # users
                          => /\ verify_password("x", u.pwhash)
                             /\ \E v \in users' :
                                   /\ users' = (users \ {u}) \cup {v}
                                   /\ v = [u EXCEPT !.pwhash = v.pwhash]
                                   /\ v.pwhash # u.pwhash
                                   /\ verify_password("y", v.pwhash)]_vars

\* A password change has just been refused with 403 while the only user
\* stored, who may change the own password, has another password than the
\* old password given
C23_Witness ==
    /\ response = Reply("password_change", "403")
    /\ \E u \in users :
          /\ users = {u} /\ u.name = "a"
          /\ ~verify_password("x", u.pwhash)
          /\ PERM_EDIT_OWN_USER \in PERMISSIONS[u.role]

\* Reachability of the change of another user's password
C23_ReachOther ==
    /\ response = Reply("password_change", "201")
    /\ \E u \in users, b \in users :
          /\ u.name = "_" /\ verify_password("y", u.pwhash)
          /\ b.name = "b" /\ verify_password("x", b.pwhash)
          /\ \A w \in users \ {u} : verify_password("x", w.pwhash)

\* C24: fill_tree(T) gives the tree T to every user whose tree is NULL or ""
\* and leaves every other user, and every other field, as they are; after it,
\* for a non-empty T, no user is without a tree and a second fill_tree, with
\* any argument, would leave the table as it is.
C24_FillTreeFrame ==
    [][response'.op = "fill_tree" =>
        \A T \in Tenants \cup {""} :
           Call_fill_tree(T) =>
              /\ \A u \in users :
                    IF u.tree = None \/ u.tree = ""
                    THEN [u EXCEPT !.tree = T] \in users'
                    ELSE u \in users'
              /\ Cardinality(users') = Cardinality(users)
              /\ T # "" => \A v \in users' : v.tree # None /\ v.tree # ""
              /\ T # "" => \A T2 \in Tenants \cup {""} : fill_tree(T2)' = users']_vars

\* fill_tree has just run in a store with a user of another tree: there is a
\* user of each tree and none without
C24_Witness ==
    /\ response = Reply("fill_tree", "ok")
    /\ Cardinality(users) = 3
    /\ \E u \in users, v \in users : u.tree = "A" /\ v.tree = "B"
    /\ \A u \in users : u.tree \in Tenants

\* C25: config_set with a key outside the allow-list raises ValueError and
\* leaves the table as it is; with an allowed key it makes config_get of that
\* key return the text of the value and leaves every other key as it is;
\* config_delete makes config_get of its key return None and leaves every
\* other key as it is; config_get returns the stored value and changes
\* nothing; and the table never holds two rows with one key.
C25_ConfigTable ==
    [][/\ \A c \in config', d \in config' : c.key = d.key => c = d
       /\ response'.op = "config_set" =>
             \A k \in ConfigKeys, v \in ConfigValues :
                Call_config_set(k, v) =>
                   IF k \notin DB_CONFIG_ALLOWED_KEYS
                   THEN response'.status = "ValueError" /\ config' = config
                   ELSE /\ response'.status = "ok"
                        /\ config_get(k)' = str(v)
                        /\ v.type = "str" => config_get(k)' = v
                        /\ \A k2 \in ConfigKeys \ {k} :
                              config_get(k2)' = config_get(k2)
       /\ response'.op = "config_delete" =>
             \A k \in ConfigKeys :
                Call_config_delete(k) =>
                   /\ config_get(k)' = NoneValue
                   /\ \A k2 \in ConfigKeys \ {k} : config_get(k2)' = config_get(k2)
       /\ response'.op = "config_get" =>
             \A k \in ConfigKeys :
                Call_config_get(k) =>
                   response'.body = config_get(k) /\ config' = config]_vars

\* config_get has returned a value that was set after a delete and an update:
\* the row of the key is not the first one of the table
C25_Witness ==
    /\ response = [op |-> "config_get", status |-> "ok", body |-> Value("str", "25")]
    /\ Cardinality(config) = 2
    /\ \E c \in config : c.value = Value("str", "25") /\ c.id > 2

\* config_set has refused a key outside the allow-list in a table with rows
C25_ReachRefused ==
    /\ response = Reply("config_set", "ValueError")
    /\ config # {}

C26_ReachInline ==
    /\ CELERY_CONFIG = {}
    /\ response.op = "run_task" /\ response.status = "return"
    /\ response.body = [file_name |-> "export", file_type |-> ".gramps",
                        url |-> "/api/exporters/gramps/file/processed/export"]
    /\ \E m \in mails : m.task = "export_db"

\* Without a queue backend: the task has raised and run_task with it
C26_ReachRaise ==
    /\ CELERY_CONFIG = {}
    /\ response.op = "run_task" /\ response.status = "raise"
    /\ mails = {}

C28_MediaPutNeedsEditObject ==
    [][response'.op = "media_put" =>
        \/ /\ response'.status = "403"
           /\ media' = media /\ files' = files
        \/ \A jwt \in Callers :
              (~get_permissions_raises(jwt) /\ PERM_EDIT_OBJ \notin get_permissions(jwt)) =>
                 \A handle \in Handles \cup {"h0"}, if_match \in IfMatches,
                    mime \in Mimes \cup {None}, content \in Contents,
                    uploadmissing \in BOOLEAN :
                    ~MediaFileResource_put(jwt, handle, if_match, mime, content,
                                           uploadmissing)]_vars

\* A guest has been refused after an editor has replaced the file of "h1"
C28_Witness ==
    /\ response = Reply("media_put", "403")
    /\ media["h1"].checksum = process_file("c2")
    /\ \E u \in users : u.role = ROLE_GUEST

\* C29: for a caller with EditObject and a stored media object, PUT with a
\* header If-Match that has entity tags and not the stored checksum among them
\* is answered 412; with a header that has the stored checksum among its
\* entity tags it is not answered 412, and is answered 406 when it has no
\* content type; a request answered 412 or 406 stores no file and leaves the
\* media object as it is.
C29_IfMatchAndContentType ==
    [][response'.op = "media_put" =>
        \A jwt \in Callers, handle \in Handles, if_match \in IfMatches,
           mime \in Mimes \cup {None}, content \in Contents,
           uploadmissing \in BOOLEAN :
           (/\ require_permissions(jwt, {PERM_EDIT_OBJ}) = "ok"
            /\ MediaFileResource_put(jwt, handle, if_match, mime, content,
                                     uploadmissing)) =>
              /\ (if_match # {} /\ media[handle].checksum \notin if_match)
                    => response'.status = "412"
              /\ media[handle].checksum \in if_match
                    => /\ response'.status # "412"
                       /\ mime = None => response'.status = "406"
              /\ response'.status \in {"412", "406"}
                    => media' = media /\ files' = files]_vars

\* The reading of If-Match the endpoint has: for a caller with EditObject and
\* a stored media object, a header with an entity tag that is not the stored
\* checksum is answered 412; otherwise a request without a content type is
\* answered 406; neither stores a file or changes the media object.
C29_EveryTagMustMatch ==
    [][response'.op = "media_put" =>
        \A jwt \in Callers, handle \in Handles, if_match \in IfMatches,
           mime \in Mimes \cup {None}, content \in Contents,
           uploadmissing \in BOOLEAN :
           (/\ require_permissions(jwt, {PERM_EDIT_OBJ}) = "ok"
            /\ MediaFileResource_put(jwt, handle, if_match, mime, content,
                                     uploadmissing)) =>
              /\ if_match \ {media[handle].checksum} # {}
                    => response'.status = "412"
              /\ (if_match \ {media[handle].checksum} = {} /\ mime = None)
                    => response'.status = "406"
              /\ response'.status \in {"412", "406"}
                    => media' = media /\ files' = files]_vars

\* A request has been answered 412 while the tree's object has its first
\* checksum, which is in two of the three headers the callers send
C29_Reach412 ==
    /\ response = Reply("media_put", "412")
    /\ media["h1"].checksum = process_file("c1")

\* C30: for a caller with EditObject, a stored media object, a header If-Match
\* that passes and a content type: content with the stored checksum is
\* answered 409, unless uploadmissing is set and the file of the object is
\* not stored, and then the file is stored under the path of the object and
\* the object is left as it is; content with another checksum is answered 409
\* when uploadmissing is set, and otherwise the file is stored under the
\* default name and the object gets the checksum, that path and the mime type
\* of the request. A request answered 409 changes nothing.
C30_MediaPutUpload ==
    [][(response'.op = "media_put" /\ response'.status \in {"200", "409"}) =>
        \A jwt \in Callers, handle \in Handles, if_match \in IfMatches,
           mime \in Mimes, content \in Contents, uploadmissing \in BOOLEAN :
           (/\ require_permissions(jwt, {PERM_EDIT_OBJ}) = "ok"
            /\ if_match \ {media[handle].checksum} = {}
            /\ MediaFileResource_put(jwt, handle, if_match, mime, content,
                                     uploadmissing)) =>
              LET checksum == process_file(content)
                  stored == \E f \in files : f.path = media[handle].path
              IN  IF checksum = media[handle].checksum
                  THEN IF uploadmissing /\ ~stored
                       THEN /\ response'.status = "200"
                            /\ media' = media
                            /\ files' = files
                                  \cup {[path |-> media[handle].path,
                                         checksum |-> checksum, mime |-> mime]}
                       ELSE /\ response'.status = "409"
                            /\ media' = media /\ files' = files
                  ELSE IF uploadmissing
                       THEN /\ response'.status = "409"
                            /\ media' = media /\ files' = files
                       ELSE /\ response'.status = "200"
                            /\ media'[handle]
                                  = [checksum |-> checksum,
                                     path |-> get_default_filename(checksum, mime),
                                     mime |-> mime]
                            /\ \E f \in files' :
                                  /\ f.path = media'[handle].path
                                  /\ f.checksum = checksum /\ f.mime = mime
                            /\ \A f \in files :
                                  f.path # media'[handle].path => f \in files']_vars

\* The missing file of the object has been uploaded with the flag: it is
\* stored under the path of the object, which is as the tree started with
C30_Witness ==
    /\ response = Reply("media_put", "200")
    /\ media = MediaObjects
    /\ [path |-> "h1.jpg", checksum |-> process_file("c1"), mime |-> "image/png"]
          \in files

\* The file of the object has been replaced: the object has the checksum, the
\* default path and the mime type of the new content
C30_ReachUpdated ==
    /\ response = Reply("media_put", "200")
    /\ media["h1"] = [checksum |-> "md5-c2", path |-> "md5-c2.png",
                       mime |-> "image/png"]
    /\ \E f \in files : f.path = "md5-c2.png"

\* A re-upload of the same content has been refused
C30_Reach409 ==
    /\ response = Reply("media_put", "409")
    /\ media["h1"].checksum = "md5-c2"

\* C31: with the limiter on, a request to a limited endpoint from a client
\* whose request to that endpoint was let through less than a second ago is
\* answered 429 and changes nothing: no user, no e-mail, no task, no window.
\* A request of a client with no open window for the endpoint is not answered
\* 429 and opens a window of one second, so that of the requests of a client
\* in a window one is processed; a token request with the right password is
\* then answered 200.
C31_RateLimit ==
    [][(response'.op \in LimitedOps /\ now' = now) =>
         LET key == <<response'.op, response'.remote_addr>>
         IN  IF key \in DOMAIN hits /\ now < hits[key]
             THEN /\ response'.status = "429"
                  /\ users' = users /\ mails' = mails /\ queue' = queue
                  /\ hits' = hits
             ELSE /\ response'.status # "429"
                  /\ hits' = [k \in DOMAIN hits \cup {key} |->
                                 IF k = key THEN now + 1 ELSE hits[k]]
                  /\ response'.op = "token"
                        => (response'.status = "200"
                              <=> \E password \in Passwords :
                                     /\ authorized("a", password)
                                     /\ TokenResource_post("a", password))]_vars

\* In the second second, the client "c1" has been refused a registration: its
\* first request of that second was let through, as one was in the first
C31_Witness ==
    /\ response = [op |-> "register", status |-> "429", remote_addr |-> "c1"]
    /\ now = 1
    /\ <<"register", "c1">> \in DOMAIN hits
    /\ hits[<<"register", "c1">>] = 2
    /\ \E u \in users : u.name = "b"

\* The reset e-mail has been sent twice, a second apart
C31_ReachAgain ==
    /\ response = [op |-> "reset_trigger", status |-> "201", remote_addr |-> "c1"]
    /\ now = 1
    /\ <<"reset_trigger", "c2">> \notin DOMAIN hits

\* --- C32, C33 (SpecObjects)
\* C32: creating objects is gated by role. A guest is answered 403 and
\* nothing is stored; a contributor creates objects that stand alone (201,
\* stored) and is answered 403 for a family of existing people, with these
\* people and everything else unchanged; an editor or owner is answered 201
\* for the family too, which is stored and entered in the lists of its people.
C32_ObjectCreationByRole ==
    [][\A jwt \in Callers, batch \in ObjectBatches :
          (/\ Postable(batch) /\ \A i \in DOMAIN batch : batch[i].valid
           /\ ObjectsResource_post(jwt, batch))
          => LET role == CallerRole(jwt)
                 family == \E i \in DOMAIN batch : batch[i]._class = "Family"
             IN  /\ role \in {ROLE_GUEST, ROLE_MEMBER}
                      => response'.status = "403" /\ objects' = objects
                 /\ role = ROLE_CONTRIBUTOR /\ ~family
                      => /\ response'.status = "201"
                         /\ BatchHandles(batch) \subseteq DOMAIN objects'
                 /\ role = ROLE_CONTRIBUTOR /\ family
                      => response'.status = "403" /\ objects' = objects
                 /\ role \in {ROLE_EDITOR, ROLE_OWNER}
                      => /\ response'.status = "201"
                         /\ BatchHandles(batch) \subseteq DOMAIN objects'
                         /\ \A i \in DOMAIN batch :
                               batch[i]._class = "Family"
                               => /\ objects'[batch[i].father_handle].family_list
                                       = <<batch[i].handle>>
                                  /\ objects'[batch[i].child].parent_family_list
                                       = <<batch[i].handle>>]_vars

\* A contributor has created the two people and has been refused the family
C32_Witness ==
    /\ response = Reply("objects_post", "403")
    /\ {"p1", "p2"} \subseteq DOMAIN objects
    /\ "f1" \notin DOMAIN objects
    /\ \E u \in users : u.role = ROLE_CONTRIBUTOR
    /\ \A u \in users : u.role \notin {ROLE_GUEST, ROLE_MEMBER}

\* An editor or owner has created the family
C32_ReachFamily ==
    /\ response = Reply("objects_post", "201")
    /\ "f1" \in DOMAIN objects
    /\ objects["p1"].family_list = <<"f1">>

\* C33: POST /api/objects/ is all or nothing: when an object of the body is
\* invalid the answer is 400 and no object of the body is in the database
\* afterwards, the valid ones before the invalid one included.
C33_BatchAllOrNothing ==
    [][\A jwt \in Callers, batch \in ObjectBatches :
          (/\ Postable(batch) /\ \E i \in DOMAIN batch : ~batch[i].valid
           /\ has_permissions(jwt, {PERM_ADD_OBJ})
           /\ ObjectsResource_post(jwt, batch))
          => /\ response'.status = "400"
             /\ BatchHandles(batch) \cap DOMAIN objects' = {}
             /\ objects' = objects]_vars

\* The body with a person and an invalid event has been refused after other
\* objects were stored
C33_Witness ==
    /\ response = Reply("objects_post", "400")
    /\ "p1" \in DOMAIN objects
    /\ {"p3", "e1"} \cap DOMAIN objects = {}

\* --- C34, C35, C36 (SpecEdit)
\* C34: without the bootstrap on an empty store, requests of callers who lack
\* MakeAdmin never leave a user whose stored role is admin or higher: POST
\* /users/{name} and PUT /users/{name} with a role >= admin are answered 403
\* (the caller's role being a login role, the name one PUT can resolve and
\* POST accepts) with the table of users unchanged, and register stores the
\* role unconfirmed.
C34_NoAdminWithoutMakeAdmin ==
    [][/\ \A u \in users' : u.role < ROLE_ADMIN
       /\ response'.op = "put"
            => \/ users' = users /\ response'.status = "403"
               \/ \A jwt \in Callers, user_name \in EditNames,
                     d \in EditBodyDetails,
                     role \in {r \in EditBodyRoles : r >= ROLE_ADMIN} :
                     \/ /\ users' = users
                        /\ ~(/\ CallerRole(jwt) \in LoginRoles
                             /\ (user_name = "-" \/ Lookup(user_name) # {}))
                     \/ has_permissions(jwt, {PERM_MAKE_ADMIN})
                     \/ ~UserResource_put(jwt, user_name, d[1], d[2], role)
       /\ response'.op = "post"
            => \/ users' = users /\ response'.status = "403"
               \/ \A jwt \in Callers, user_name \in {"-", "d"},
                     tree \in {None, "B"},
                     role \in {r \in EditBodyRoles : r >= ROLE_ADMIN} :
                     \/ /\ users' = users
                        /\ ~(CallerRole(jwt) \in LoginRoles /\ user_name # "-")
                     \/ has_permissions(jwt, {PERM_MAKE_ADMIN})
                     \/ ~UserResource_post(jwt, user_name, "x", "e2", "f", role,
                                           tree)
       /\ (response'.op = "register" /\ response'.status = "201")
            => \E u \in users' \ users :
                  /\ users' = users \cup {u}
                  /\ u.role = ROLE_UNCONFIRMED]_vars

\* An owner, who may edit roles and add users, has been refused; a user has
\* registered
C34_Witness ==
    /\ response \in {Reply("put", "403"), Reply("post", "403")}
    /\ \E u \in users : u.role = ROLE_OWNER
    /\ \A u \in users : u.role \in {ROLE_OWNER, ROLE_UNCONFIRMED}
    /\ \E u \in users : u.role = ROLE_UNCONFIRMED

\* C35: a caller whose role is guest, member, contributor or editor (no
\* EditUserRole) never changes a role: every PUT /users/{name} of such a
\* caller that carries a role, for "-" or the name of a user, is answered 403
\* and changes no field of any user, the e-mail and full name of the same
\* body included.
C35_NoRoleChangeWithoutEditUserRole ==
    [][response'.op = "put"
         => \/ users' = users /\ response'.status = "403"
            \/ \A jwt \in Callers, user_name \in EditNames,
                  d \in EditBodyDetails, role \in EditBodyRoles :
                  \/ /\ users' = users
                     /\ user_name # "-" /\ Lookup(user_name) = {}
                  \/ CallerRole(jwt) \notin LowRoles
                  \/ ~UserResource_put(jwt, user_name, d[1], d[2], role)]_vars

\* The only user is below editor or an editor and has been refused
C35_Witness ==
    /\ response = Reply("put", "403")
    /\ \E u \in users : users = {u} /\ u.role \in LowRoles /\ u.email = None

\* A caller without EditUserRole has changed their own e-mail with a body
\* that carries no role
C35_ReachOwnEdit ==
    /\ response = Reply("put", "200")
    /\ \E u \in users : users = {u} /\ u.role \in LowRoles /\ u.email = "e1"

\* --- C36 (SpecModify)
\* C36: modify_user changes exactly the fields that are given (not None) of
\* the user it is called for and leaves the other fields of that user and all
\* other users unchanged; no operation changes the id of a user, and PUT
\* /users/{name} changes neither a password hash nor a tree.
C36_ModifyUserFrame ==
    [][/\ (response'.op = "modify_user" /\ response'.status = "ok")
            => \A name \in Names, a \in ModifyArgs :
                  Call_modify_user(name, a[1], a[2], a[3], a[4], a[5], a[6])
                  => \E u \in users, v \in users' :
                        /\ u.name = name
                        /\ users' \ {v} = users \ {u}
                        /\ v.id = u.id
                        /\ v.name = (IF a[1] # None THEN a[1] ELSE u.name)
                        /\ IF a[2] # None THEN verify_password(a[2], v.pwhash)
                                          ELSE v.pwhash = u.pwhash
                        /\ v.fullname = (IF a[3] # None THEN a[3] ELSE u.fullname)
                        /\ v.email = (IF a[4] # None THEN a[4] ELSE u.email)
                        /\ v.role = (IF a[5] # RoleNone THEN a[5] ELSE u.role)
                        /\ v.tree = (IF a[6] # None THEN a[6] ELSE u.tree)
       /\ response'.op = "put"
            => \A u \in users : \E v \in users' :
                  /\ v.id = u.id /\ v.name = u.name
                  /\ v.pwhash = u.pwhash /\ v.tree = u.tree
       /\ response'.op # "modify_user"
            => \A u \in users, v \in users' : v.name = u.name => v.id = u.id]_vars

\* modify_user has changed the role and tree of b and nothing else, next to
\* another user
C36_Witness ==
    /\ response = Reply("modify_user", "ok")
    /\ \E u \in users :
          /\ u.name = "b" /\ u.role = ROLE_MEMBER /\ u.tree = "B"
          /\ u.fullname = "f" /\ u.email = None /\ u.pwhash[2] = "x"
    /\ \E u \in users : u.name = "a"

\* PUT has changed the e-mail and full name of a user
C36_ReachPut ==
    /\ response = Reply("put", "200")
    /\ \E u \in users : u.email = "e1" /\ u.fullname = "g" /\ u.pwhash[2] = "x"

\* --- C37 (SpecNotify)
\* C37: the notification of a new user that the confirmation of an e-mail
\* address dispatches goes to exactly the non-empty e-mail addresses of the
\* owners of the confirmed user's tree, and no e-mail is sent when there are
\* none.
C37_NotifyOwnersOfUsersTree ==
    [][(response'.op = "confirm" /\ Notifications' # Notifications)
         => \A m \in Notifications' \ Notifications :
               LET tree == (CHOOSE u \in users' : u.name = m.username).tree
                   owners == {u \in users' : u.role = ROLE_OWNER /\ u.tree = tree}
                   emails == {u.email : u \in owners} \ {None, ""}
               IN  /\ \A mail \in send_email_new_user(m)' : mail.to = emails
                   /\ emails = {} <=> send_email_new_user(m)' = {}]_vars

\* What the endpoint does: the notification goes to the non-empty e-mail
\* addresses of the owners of the tree of the token, which the token of a
\* confirmation does not carry
C37_NotifyOwnersOfTokenTree ==
    [][(response'.op = "confirm" /\ Notifications' # Notifications)
         => \A m \in Notifications' \ Notifications :
               LET owners == {u \in users' : /\ u.role = ROLE_OWNER
                                            /\ u.tree = ScopedTokenTree}
                   emails == {u.email : u \in owners} \ {None, ""}
               IN  /\ m.tree = ScopedTokenTree
                   /\ \A mail \in send_email_new_user(m)' : mail.to = emails
                   /\ emails = {} <=> send_email_new_user(m)' = {}]_vars

\* A user of tree A has confirmed; the owner of tree A has an e-mail address
\* and is sent nothing
C37_ReachNotNotified ==
    /\ response = Reply("confirm", "200")
    /\ \E u \in users : u.name = "b" /\ u.tree = "A" /\ u.role = ROLE_DISABLED
    /\ \E u \in users : u.role = ROLE_OWNER /\ u.tree = "A" /\ u.email = "e1"
    /\ \E m \in Notifications : send_email_new_user(m) = {}

\* --- C38 (SpecPassword)
\* The users whose stored hash is the hash of the empty password
EmptyPassword == {u \in users : verify_password("", u.pwhash)}

\* C38: in every reachable state no user's stored hash is the hash of the
\* empty password: add_user, register, create_owner, POST /users/{name}, the
\* password change and the password reset all refuse an empty new password
\* and leave the store unchanged.
C38_NoEmptyPassword == EmptyPassword = {}

\* What the code does: every operation but the password change refuses an
\* empty password
C38_EmptyOnlyByPasswordChange ==
    [][response'.op # "password_change" => EmptyPassword' \subseteq EmptyPassword]_vars

\* The operations other than the password change have refused an empty password
C38_ReachRefused ==
    /\ response \in {Reply("add_user", "ValueError"), Reply("reset_post", "400"),
                      Reply("post", "409"), Reply("register", "409")}
    /\ users # {}
    /\ EmptyPassword = {}

\* A user has changed their password to the empty one
C38_ReachEmpty ==
    /\ response = Reply("password_change", "201")
    /\ EmptyPassword # {}

\* --- C39 (SpecTakeover)
\* C39: a caller below admin never modifies (e-mail, full name, role) or
\* deletes a user whose role is admin, so that no sequence of requests of
\* callers below admin gives them credentials of an admin account: every user
\* of role admin is the same after every step of such callers.
C39_AdminUntouchedByLower ==
    [][\A u \in users : u.role >= ROLE_ADMIN => u \in users']_vars

\* A caller below admin has changed the admin's e-mail address to their own
C39_ReachEmail ==
    /\ response = Reply("put", "200")
    /\ \E u \in users : u.role = ROLE_ADMIN /\ u.email = LowerAddress

\* A caller below admin has deleted the admin
C39_ReachDeleted ==
    /\ response = Reply("delete", "200")
    /\ \A u \in users : u.role < ROLE_ADMIN

\* A caller below admin has changed the admin's e-mail address, triggered a
\* reset and set a password with which they log in as the admin
C39_ReachTakeover ==
    /\ response = Reply("reset_post", "201")
    /\ \E u \in users : u.role = ROLE_ADMIN /\ authorized(u.name, "y")

====
